---- MODULE Spec2Model ----
(***************************************************************************)
(* Model of the hygiene store of garando_pos (src/garando_pos/src/         *)
(* hygiene.rs): the mark table, the syntax-context table and the markings  *)
(* cache of HygieneData, and the operations of Mark and SyntaxContext.     *)
(*                                                                         *)
(* A Mark or SyntaxContext value is its u32 index.  Rust vectors are       *)
(* 0-based, TLA+ sequences 1-based: entry i of a table is seq[i + 1].      *)
(* Option<T> is a sequence of length <= 1: None is <<>>, Some(x) is <<x>>. *)
(* A call ends in one of three outcomes: "ok" (it returns), "trap" (an     *)
(* index past the end of a table panics) or "diverge" (a walk along a      *)
(* cyclic parent chain never ends).                                        *)
(***************************************************************************)
EXTENDS Integers, Sequences, FiniteSets, TLC

VARIABLES marks, syntax_contexts, markings, gensym_to_ctxt, last, peer, gensyms, lines, builder, handler, panicking

\* The state outside the hygiene store of the thread under study: the
\* hygiene store of a second thread and the gensym table of the symbol
\* interner.
outside == <<peer, gensyms, lines, builder, handler, panicking>>

vars == <<marks, syntax_contexts, markings, gensym_to_ctxt, last, outside>>

\* Largest length of the mark table the model explores.
MaxMarks == 3
\* Largest length of the syntax-context table the model explores.
MaxCtxts == 3

None == <<>>
Some(x) == <<x>>

\* Mark::root()
root == 0
\* SyntaxContext::empty() / NO_EXPANSION
empty == 0


\* MarkData::default(): the entry of the root mark.
MarkDataDefault == [parent |-> 0, modern |-> FALSE, expn_info |-> None]
\* SyntaxContextData::default(): the entry of the empty context.
SyntaxContextDataDefault == [outer_mark |-> 0, prev_ctxt |-> 0, modern |-> 0]

\* HashMap::new()
EmptyMap == [k \in {} |-> 0]

\* The store as one value, as the closures of HygieneData::with see it.
HygieneData(mk, sc, mg, gs) ==
    [marks |-> mk, syntax_contexts |-> sc, markings |-> mg, gensym_to_ctxt |-> gs]
data == HygieneData(marks, syntax_contexts, markings, gensym_to_ctxt)

\* HygieneData::new()
HygieneDataNew ==
    HygieneData(<<MarkDataDefault>>, <<SyntaxContextDataDefault>>, EmptyMap, EmptyMap)

\* SyntaxContext values a caller can hold: the field is private, so only
\* indices of existing table entries.
Ctxts(d) == 0 .. (Len(d.syntax_contexts) - 1)
\* Marks issued by the store.
Marks(d) == 0 .. (Len(d.marks) - 1)
\* Mark values a caller can pass: the issued ones and, through
\* Mark::from_u32, a raw value past the end of the table (every such value
\* fails the same bounds check, so the first one stands for all).
RawMarks(d) == 0 .. Len(d.marks)

\* The record of one call: its name, the SyntaxContext it was called on,
\* how it ended, the value it returned and the value left in the caller's
\* `self` (for a method of Mark or Span: the receiver; for a call without a
\* receiver: empty()).
Call(op, c, outcome, ret, self) ==
    [op |-> op, ctxt |-> c, outcome |-> outcome, ret |-> ret, self |-> self]

----
\* SyntaxContext::outer
outer(d, self) == d.syntax_contexts[self + 1].outer_mark

\* SyntaxContext::modern
modern(d, self) == d.syntax_contexts[self + 1].modern

\* The prev_ctxt field of a table entry.
prev_ctxt(d, self) == d.syntax_contexts[self + 1].prev_ctxt

\* Mark::fresh with the new entry created modern.
fresh_starts_modern(d, parent) ==
    [data |-> [d EXCEPT !.marks =
                   Append(@, [parent |-> parent, modern |-> TRUE, expn_info |-> None])],
     ret |-> Len(d.marks)]

\* Mark::fresh(parent): push the entry, return Mark(len - 1).  parent is
\* stored, never used as an index.
fresh(d, parent) ==
    [data |-> [d EXCEPT !.marks =
                   Append(@, [parent |-> parent, modern |-> FALSE, expn_info |-> None])],
     ret |-> Len(d.marks)]

\* Mark::is_modern
mark_is_modern(d, self) == d.marks[self + 1].modern

\* Mark::expn_info
expn_info(d, self) == d.marks[self + 1].expn_info

\* clear_markings(): the store afterwards.
clear_markings(d) == [d EXCEPT !.markings = EmptyMap]

\* Mark::set_expn_info(self, info): the store afterwards.
set_expn_info(d, self, info) == [d EXCEPT !.marks[self + 1].expn_info = Some(info)]

\* Span { lo, hi, ctxt }
Span(lo, hi, ctxt) == [lo |-> lo, hi |-> hi, ctxt |-> ctxt]

\* DUMMY_SP
DUMMY_SP == Span(0, 0, empty)

\* ExpnFormat: the three ways an expansion is invoked, each with its name.
MacroAttribute(s) == [kind |-> "MacroAttribute", name |-> s]
MacroBang(s) == [kind |-> "MacroBang", name |-> s]
CompilerDesugaring(s) == [kind |-> "CompilerDesugaring", name |-> s]

\* NameAndSpan { format, span } (allow_internal_unstable is not modelled).
NameAndSpan(format, span) == [format |-> format, span |-> span]

\* NameAndSpan::name
name(callee) == callee.format.name

\* ExpnInfo { call_site, callee }
ExpnInfo(call_site, callee) == [call_site |-> call_site, callee |-> callee]

\* The loop of Mark::is_descendant_of.  fuel counts the remaining steps
\* before the walk must have revisited a mark, i.e. runs forever.
RECURSIVE is_descendant_walk(_, _, _, _)
is_descendant_walk(d, self, ancestor, fuel) ==
    IF self = ancestor THEN "true"
    ELSE IF self = root THEN "false"
    ELSE IF self >= Len(d.marks) THEN "trap"
    ELSE IF fuel = 0 THEN "diverge"
    ELSE is_descendant_walk(d, d.marks[self + 1].parent, ancestor, fuel - 1)

\* is_descendant_of that does not count a mark as its own descendant.
is_descendant_of_strict(d, self, ancestor) ==
    IF self = ancestor THEN "false"
    ELSE is_descendant_walk(d, self, ancestor, Len(d.marks))

\* Mark::is_descendant_of: "true", "false", "trap" or "diverge".
is_descendant_of(d, self, ancestor) == is_descendant_walk(d, self, ancestor, Len(d.marks))

\* markings.entry(key).or_insert_with(|| push(rec)): the store afterwards.
entry_or_insert(d, key, rec) ==
    IF key \in DOMAIN d.markings THEN d
    ELSE [d EXCEPT !.syntax_contexts = Append(@, rec),
                   !.markings = (key :> Len(d.syntax_contexts)) @@ @]

\* apply_mark with the new entry's prev_ctxt taken from the modern
\* projection of self instead of self.
apply_mark_prev_from_modern(d, self, mark) ==
    LET ctxt_data == d.syntax_contexts[self + 1] IN
    IF mark = ctxt_data.outer_mark
    THEN [outcome |-> "ok", data |-> d, ret |-> ctxt_data.prev_ctxt]
    ELSE IF mark >= Len(d.marks)
    THEN [outcome |-> "trap", data |-> d, ret |-> self]
    ELSE LET is_modern == d.marks[mark + 1].modern
             mkey == <<ctxt_data.modern, mark>>
             d1 == IF is_modern
                   THEN entry_or_insert(d, mkey,
                            [outer_mark |-> mark, prev_ctxt |-> ctxt_data.modern,
                             modern |-> Len(d.syntax_contexts)])
                   ELSE d
             mod == IF is_modern THEN d1.markings[mkey] ELSE ctxt_data.modern
             d2 == entry_or_insert(d1, <<self, mark>>,
                       [outer_mark |-> mark, prev_ctxt |-> ctxt_data.modern, modern |-> mod])
         IN [outcome |-> "ok", data |-> d2, ret |-> d2.markings[<<self, mark>>]]

\* apply_mark that records the outcome of the cancellation rule in the cache.
apply_mark_caches_cancellation(d, self, mark) ==
    LET ctxt_data == d.syntax_contexts[self + 1] IN
    IF mark = ctxt_data.outer_mark
    THEN [outcome |-> "ok",
          data |-> [d EXCEPT !.markings = (<<self, mark>> :> ctxt_data.prev_ctxt) @@ @],
          ret |-> ctxt_data.prev_ctxt]
    ELSE IF mark >= Len(d.marks)
    THEN [outcome |-> "trap", data |-> d, ret |-> self]
    ELSE LET is_modern == d.marks[mark + 1].modern
             mkey == <<ctxt_data.modern, mark>>
             d1 == IF is_modern
                   THEN entry_or_insert(d, mkey,
                            [outer_mark |-> mark, prev_ctxt |-> ctxt_data.modern,
                             modern |-> Len(d.syntax_contexts)])
                   ELSE d
             mod == IF is_modern THEN d1.markings[mkey] ELSE ctxt_data.modern
             d2 == entry_or_insert(d1, <<self, mark>>,
                       [outer_mark |-> mark, prev_ctxt |-> self, modern |-> mod])
         IN [outcome |-> "ok", data |-> d2, ret |-> d2.markings[<<self, mark>>]]

\* apply_mark whose legacy branch takes self, not self's modern projection,
\* as the modern field of the new entry.
apply_mark_legacy_modern_is_self(d, self, mark) ==
    LET ctxt_data == d.syntax_contexts[self + 1] IN
    IF mark = ctxt_data.outer_mark
    THEN [outcome |-> "ok", data |-> d, ret |-> ctxt_data.prev_ctxt]
    ELSE IF mark >= Len(d.marks)
    THEN [outcome |-> "trap", data |-> d, ret |-> self]
    ELSE LET is_modern == d.marks[mark + 1].modern
             mkey == <<ctxt_data.modern, mark>>
             d1 == IF is_modern
                   THEN entry_or_insert(d, mkey,
                            [outer_mark |-> mark, prev_ctxt |-> ctxt_data.modern,
                             modern |-> Len(d.syntax_contexts)])
                   ELSE d
             mod == IF is_modern THEN d1.markings[mkey] ELSE self
             d2 == entry_or_insert(d1, <<self, mark>>,
                       [outer_mark |-> mark, prev_ctxt |-> self, modern |-> mod])
         IN [outcome |-> "ok", data |-> d2, ret |-> d2.markings[<<self, mark>>]]

\* apply_mark whose modern branch builds the modern entry on self, not on
\* self's modern projection.
apply_mark_modern_entry_on_self(d, self, mark) ==
    LET ctxt_data == d.syntax_contexts[self + 1] IN
    IF mark = ctxt_data.outer_mark
    THEN [outcome |-> "ok", data |-> d, ret |-> ctxt_data.prev_ctxt]
    ELSE IF mark >= Len(d.marks)
    THEN [outcome |-> "trap", data |-> d, ret |-> self]
    ELSE LET is_modern == d.marks[mark + 1].modern
             mkey == <<ctxt_data.modern, mark>>
             d1 == IF is_modern
                   THEN entry_or_insert(d, mkey,
                            [outer_mark |-> mark, prev_ctxt |-> self,
                             modern |-> Len(d.syntax_contexts)])
                   ELSE d
             mod == IF is_modern THEN d1.markings[mkey] ELSE ctxt_data.modern
             d2 == entry_or_insert(d1, <<self, mark>>,
                       [outer_mark |-> mark, prev_ctxt |-> self, modern |-> mod])
         IN [outcome |-> "ok", data |-> d2, ret |-> d2.markings[<<self, mark>>]]
\* SyntaxContext::apply_mark: [outcome, data, ret].
apply_mark(d, self, mark) ==
    LET ctxt_data == d.syntax_contexts[self + 1] IN
    IF mark = ctxt_data.outer_mark
    THEN [outcome |-> "ok", data |-> d, ret |-> ctxt_data.prev_ctxt]
    ELSE IF mark >= Len(d.marks)
    THEN [outcome |-> "trap", data |-> d, ret |-> self]
    ELSE LET is_modern == d.marks[mark + 1].modern
             mkey == <<ctxt_data.modern, mark>>
             d1 == IF is_modern
                   THEN entry_or_insert(d, mkey,
                            [outer_mark |-> mark, prev_ctxt |-> ctxt_data.modern,
                             modern |-> Len(d.syntax_contexts)])
                   ELSE d
             mod == IF is_modern THEN d1.markings[mkey] ELSE ctxt_data.modern
             d2 == entry_or_insert(d1, <<self, mark>>,
                       [outer_mark |-> mark, prev_ctxt |-> self, modern |-> mod])
         IN [outcome |-> "ok", data |-> d2, ret |-> d2.markings[<<self, mark>>]]

\* remove_mark reading the outer mark after it has overwritten self.
remove_mark_reads_after_update(d, self) ==
    LET prev == d.syntax_contexts[self + 1].prev_ctxt IN
    [self |-> prev, ret |-> d.syntax_contexts[prev + 1].outer_mark]

\* SyntaxContext::remove_mark: [self, ret].
remove_mark(d, self) ==
    [self |-> d.syntax_contexts[self + 1].prev_ctxt,
     ret |-> d.syntax_contexts[self + 1].outer_mark]

\* The loop of SyntaxContext::adjust, entered with the marks stripped so far.
RECURSIVE adjust_loop(_, _, _, _, _)
adjust_loop(d, self, expansion, scope, stripped) ==
    LET dsc == is_descendant_of(d, expansion, outer(d, self)) IN
    IF dsc = "true"
    THEN [outcome |-> "ok", self |-> self, ret |-> scope, stripped |-> stripped]
    ELSE IF dsc = "false"
    THEN LET r == remove_mark(d, self)
         IN adjust_loop(d, r.self, expansion, Some(r.ret), Append(stripped, r.ret))
    ELSE [outcome |-> dsc, self |-> self, ret |-> None, stripped |-> stripped]

\* adjust that never records the stripped mark in scope.
adjust_forgets_scope(d, self, expansion) ==
    [adjust_loop(d, self, expansion, None, <<>>) EXCEPT !.ret = None]

\* adjust that keeps the first stripped mark in scope instead of the last.
adjust_keeps_first_scope(d, self, expansion) ==
    LET a == adjust_loop(d, self, expansion, None, <<>>) IN
    [a EXCEPT !.ret = IF a.stripped = <<>> THEN None ELSE Some(a.stripped[1])]

\* SyntaxContext::adjust: [outcome, self, ret, stripped].
adjust(d, self, expansion) == adjust_loop(d, self, expansion, None, <<>>)

\* The lockstep loop of SyntaxContext::glob_adjust followed by its final
\* adjust; removed counts the marks taken from glob_ctxt so far.
RECURSIVE glob_adjust_loop(_, _, _, _, _, _)
glob_adjust_loop(d, self, expansion, glob_ctxt, scope, removed) ==
    LET dsc == is_descendant_of(d, expansion, outer(d, glob_ctxt)) IN
    IF dsc = "false"
    THEN LET g == remove_mark(d, glob_ctxt)
             s == remove_mark(d, self)
         IN IF s.ret # g.ret
            THEN [outcome |-> "ok", self |-> s.self, ret |-> None, removed |-> removed + 1]
            ELSE glob_adjust_loop(d, s.self, expansion, g.self, Some(g.ret), removed + 1)
    ELSE IF dsc = "true"
    THEN LET a == adjust(d, self, expansion)
         IN IF a.outcome # "ok"
            THEN [outcome |-> a.outcome, self |-> a.self, ret |-> None, removed |-> removed]
            ELSE IF a.ret # None
            THEN [outcome |-> "ok", self |-> a.self, ret |-> None, removed |-> removed]
            ELSE [outcome |-> "ok", self |-> a.self, ret |-> Some(scope), removed |-> removed]
    ELSE [outcome |-> dsc, self |-> self, ret |-> None, removed |-> removed]

\* glob_adjust without the final `self.adjust(expansion).is_some()` check.
RECURSIVE glob_adjust_loop_no_adjust(_, _, _, _, _, _)
glob_adjust_loop_no_adjust(d, self, expansion, glob_ctxt, scope, removed) ==
    LET dsc == is_descendant_of(d, expansion, outer(d, glob_ctxt)) IN
    IF dsc = "false"
    THEN LET g == remove_mark(d, glob_ctxt)
             s == remove_mark(d, self)
         IN IF s.ret # g.ret
            THEN [outcome |-> "ok", self |-> s.self, ret |-> None, removed |-> removed + 1]
            ELSE glob_adjust_loop_no_adjust(d, s.self, expansion, g.self, Some(g.ret), removed + 1)
    ELSE IF dsc = "true"
    THEN [outcome |-> "ok", self |-> self, ret |-> Some(scope), removed |-> removed]
    ELSE [outcome |-> dsc, self |-> self, ret |-> None, removed |-> removed]

glob_adjust_no_final_adjust(d, self, expansion, glob_ctxt) ==
    glob_adjust_loop_no_adjust(d, self, expansion, glob_ctxt, None, 0)

\* SyntaxContext::glob_adjust: [outcome, self, ret, removed].
glob_adjust(d, self, expansion, glob_ctxt) ==
    glob_adjust_loop(d, self, expansion, glob_ctxt, None, 0)

\* The first loop of reverse_glob_adjust: the marks pushed while stripping
\* glob_ctxt, in push order.
RECURSIVE strip_glob(_, _, _, _)
strip_glob(d, expansion, glob_ctxt, pushed) ==
    LET dsc == is_descendant_of(d, expansion, outer(d, glob_ctxt)) IN
    IF dsc = "false"
    THEN LET g == remove_mark(d, glob_ctxt)
         IN strip_glob(d, expansion, g.self, Append(pushed, g.ret))
    ELSE [outcome |-> IF dsc = "true" THEN "ok" ELSE dsc, marks |-> pushed]

\* The second loop of reverse_glob_adjust: pop each mark and apply it.
RECURSIVE reapply_marks(_, _, _)
reapply_marks(d, self, pushed) ==
    IF pushed = <<>>
    THEN [outcome |-> "ok", data |-> d, ret |-> self]
    ELSE LET r == apply_mark(d, self, pushed[Len(pushed)])
         IN IF r.outcome # "ok" THEN r
            ELSE reapply_marks(r.data, r.ret, SubSeq(pushed, 1, Len(pushed) - 1))

\* reverse_glob_adjust that returns the first stripped mark (the outermost)
\* as the scope.
reverse_glob_adjust_scope_is_first(d, self, expansion, glob_ctxt) ==
    LET a == adjust(d, self, expansion) IN
    IF a.outcome # "ok"
    THEN [outcome |-> a.outcome, data |-> d, self |-> a.self, ret |-> None]
    ELSE IF a.ret # None
    THEN [outcome |-> "ok", data |-> d, self |-> a.self, ret |-> None]
    ELSE LET st == strip_glob(d, expansion, glob_ctxt, <<>>) IN
         IF st.outcome # "ok"
         THEN [outcome |-> st.outcome, data |-> d, self |-> a.self, ret |-> None]
         ELSE LET scope == IF st.marks = <<>> THEN None ELSE Some(st.marks[1])
                  r == reapply_marks(d, a.self, st.marks)
              IN [outcome |-> r.outcome, data |-> r.data, self |-> r.ret,
                  ret |-> IF r.outcome = "ok" THEN Some(scope) ELSE None]
\* SyntaxContext::reverse_glob_adjust: [outcome, data, self, ret].
reverse_glob_adjust(d, self, expansion, glob_ctxt) ==
    LET a == adjust(d, self, expansion) IN
    IF a.outcome # "ok"
    THEN [outcome |-> a.outcome, data |-> d, self |-> a.self, ret |-> None]
    ELSE IF a.ret # None
    THEN [outcome |-> "ok", data |-> d, self |-> a.self, ret |-> None]
    ELSE LET st == strip_glob(d, expansion, glob_ctxt, <<>>) IN
         IF st.outcome # "ok"
         THEN [outcome |-> st.outcome, data |-> d, self |-> a.self, ret |-> None]
         ELSE LET scope == IF st.marks = <<>> THEN None ELSE Some(st.marks[Len(st.marks)])
                  r == reapply_marks(d, a.self, st.marks)
              IN [outcome |-> r.outcome, data |-> r.data, self |-> r.ret,
                  ret |-> IF r.outcome = "ok" THEN Some(scope) ELSE None]

----
\* The second thread has not used its store yet: HYGIENE_DATA is created by
\* HygieneData::new() on the thread's first access.
\* Handler state before any call: what the builder's calls do to the Handler
\* is an error count and the diagnostics handed to the emitter.
HandlerNew == [err_count |-> 0, emitted |-> <<>>]

InitOutside ==
    /\ peer = HygieneDataNew
    /\ gensyms = <<>>
    /\ lines = <<>>
    /\ builder = None
    /\ handler = HandlerNew
    /\ panicking = FALSE

Init ==
    /\ marks = HygieneDataNew.marks
    /\ syntax_contexts = HygieneDataNew.syntax_contexts
    /\ markings = HygieneDataNew.markings
    /\ gensym_to_ctxt = HygieneDataNew.gensym_to_ctxt
    /\ InitOutside
    /\ last = Call("new", empty, "ok", None, empty)

\* Mark::fresh(parent).  Next draws parent from the marks issued so far, so
\* the parent chains of this specification are acyclic and stay in range.
Fresh(parent) ==
    LET r == fresh(data, parent) IN
    /\ Len(marks) < MaxMarks
    /\ marks' = r.data.marks
    /\ last' = Call("fresh", empty, "ok", r.ret, empty)
    /\ UNCHANGED <<syntax_contexts, markings, gensym_to_ctxt, outside>>

\* set_modern that flips the flag instead of setting it.
SetModern_toggles(m) ==
    /\ IF m < Len(marks)
       THEN /\ marks' = [marks EXCEPT ![m + 1].modern = ~@]
            /\ last' = Call("set_modern", empty, "ok", None, empty)
       ELSE /\ marks' = marks
            /\ last' = Call("set_modern", empty, "trap", None, empty)
    /\ UNCHANGED <<syntax_contexts, markings, gensym_to_ctxt, outside>>

\* Mark::set_modern(self)
SetModern(m) ==
    /\ IF m < Len(marks)
       THEN /\ marks' = [marks EXCEPT ![m + 1].modern = TRUE]
            /\ last' = Call("set_modern", empty, "ok", None, empty)
       ELSE /\ marks' = marks
            /\ last' = Call("set_modern", empty, "trap", None, empty)
    /\ UNCHANGED <<syntax_contexts, markings, gensym_to_ctxt, outside>>

\* clear_markings that also empties the gensym map.
ClearMarkings_drops_gensyms ==
    /\ markings' = EmptyMap
    /\ gensym_to_ctxt' = EmptyMap
    /\ last' = Call("clear_markings", empty, "ok", None, empty)
    /\ UNCHANGED <<marks, syntax_contexts, outside>>

\* clear_markings()
ClearMarkings ==
    /\ markings' = EmptyMap
    /\ last' = Call("clear_markings", empty, "ok", None, empty)
    /\ UNCHANGED <<marks, syntax_contexts, gensym_to_ctxt, outside>>

\* SyntaxContext::apply_mark(self, mark)
ApplyMark(c, m) ==
    LET r == apply_mark(data, c, m) IN
    /\ Len(r.data.syntax_contexts) <= MaxCtxts
    /\ syntax_contexts' = r.data.syntax_contexts
    /\ markings' = r.data.markings
    /\ last' = Call("apply_mark", c, r.outcome, r.ret, c)
    /\ UNCHANGED <<marks, gensym_to_ctxt, outside>>

\* remove_mark that panics when called on the empty context.
RemoveMark_traps_on_empty(c) ==
    LET r == remove_mark(data, c) IN
    /\ last' = IF c = empty
                THEN Call("remove_mark", c, "trap", root, c)
                ELSE Call("remove_mark", c, "ok", r.ret, r.self)
    /\ UNCHANGED <<marks, syntax_contexts, markings, gensym_to_ctxt, outside>>

\* SyntaxContext::remove_mark(&mut self)
RemoveMark(c) ==
    LET r == remove_mark(data, c) IN
    /\ last' = Call("remove_mark", c, "ok", r.ret, r.self)
    /\ UNCHANGED <<marks, syntax_contexts, markings, gensym_to_ctxt, outside>>

\* adjust as an action that also forgets the cache.
Adjust_clears_markings(c, e) ==
    LET r == adjust(data, c, e) IN
    /\ last' = Call("adjust", c, r.outcome, r.ret, r.self)
    /\ markings' = EmptyMap
    /\ UNCHANGED <<marks, syntax_contexts, gensym_to_ctxt, outside>>
\* SyntaxContext::adjust(&mut self, expansion)
Adjust(c, e) ==
    LET r == adjust(data, c, e) IN
    /\ last' = Call("adjust", c, r.outcome, r.ret, r.self)
    /\ UNCHANGED <<marks, syntax_contexts, markings, gensym_to_ctxt, outside>>

\* SyntaxContext::glob_adjust(&mut self, expansion, glob_ctxt)
GlobAdjust(c, e, g) ==
    LET r == glob_adjust(data, c, e, g) IN
    /\ last' = Call("glob_adjust", c, r.outcome, r.ret, r.self)
    /\ UNCHANGED <<marks, syntax_contexts, markings, gensym_to_ctxt, outside>>

\* SyntaxContext::reverse_glob_adjust(&mut self, expansion, glob_ctxt)
ReverseGlobAdjust(c, e, g) ==
    LET r == reverse_glob_adjust(data, c, e, g) IN
    /\ Len(r.data.syntax_contexts) <= MaxCtxts
    /\ syntax_contexts' = r.data.syntax_contexts
    /\ markings' = r.data.markings
    /\ last' = Call("reverse_glob_adjust", c, r.outcome, r.ret, r.self)
    /\ UNCHANGED <<marks, gensym_to_ctxt, outside>>

Next ==
    \/ \E parent \in Marks(data) : Fresh(parent)
    \/ \E m \in RawMarks(data) : SetModern(m)
    \/ ClearMarkings
    \/ \E c \in Ctxts(data), m \in RawMarks(data) : ApplyMark(c, m)
    \/ \E c \in Ctxts(data) : RemoveMark(c)
    \/ \E c \in Ctxts(data), e \in RawMarks(data) : Adjust(c, e)
    \/ \E c \in Ctxts(data), e \in RawMarks(data), g \in Ctxts(data) : GlobAdjust(c, e, g)
    \/ \E c \in Ctxts(data), e \in RawMarks(data), g \in Ctxts(data) : ReverseGlobAdjust(c, e, g)

Spec == Init /\ [][Next]_vars

----
\* The mark table on its own: marks are issued, made modern, annotated with
\* expansion info and queried; no context is created.

\* The ExpnInfo values a caller attaches: the one std_inject builds (dummy
\* call site, no definition span) and one for a macro invoked at bytes 1..2.
ExpnInfos ==
    { ExpnInfo(DUMMY_SP, NameAndSpan(MacroAttribute("std_inject"), None)),
      ExpnInfo(Span(1, 2, empty), NameAndSpan(MacroBang("m"), Some(Span(3, 4, empty)))) }

\* Mark::set_expn_info(self, info)
SetExpnInfo(m, info) ==
    /\ IF m < Len(marks)
       THEN /\ marks' = set_expn_info(data, m, info).marks
            /\ last' = Call("set_expn_info", empty, "ok", None, m)
       ELSE /\ marks' = marks
            /\ last' = Call("set_expn_info", empty, "trap", None, m)
    /\ UNCHANGED <<syntax_contexts, markings, gensym_to_ctxt, outside>>

\* Mark::expn_info(self)
GetExpnInfo(m) ==
    /\ last' = IF m < Len(marks)
                THEN Call("expn_info", empty, "ok", expn_info(data, m), m)
                ELSE Call("expn_info", empty, "trap", None, m)
    /\ UNCHANGED <<marks, syntax_contexts, markings, gensym_to_ctxt, outside>>

\* Mark::is_descendant_of(self, ancestor)
IsDescendantOf(m, a) ==
    LET r == is_descendant_of(data, m, a) IN
    /\ last' = IF r \in {"true", "false"}
                THEN Call("is_descendant_of", empty, "ok", r, m)
                ELSE Call("is_descendant_of", empty, r, None, m)
    /\ UNCHANGED <<marks, syntax_contexts, markings, gensym_to_ctxt, outside>>

NextMarks ==
    \/ \E parent \in Marks(data) : Fresh(parent)
    \/ \E m \in RawMarks(data) : SetModern(m)
    \/ \E m \in RawMarks(data), info \in ExpnInfos : SetExpnInfo(m, info)
    \/ \E m \in RawMarks(data) : GetExpnInfo(m)
    \/ \E m \in RawMarks(data), a \in RawMarks(data) : IsDescendantOf(m, a)

SpecMarks == Init /\ [][NextMarks]_vars

----
\* The gensym bridge (Symbol::from_ident / Symbol::to_ident).  The symbol
\* interner (symbol.rs) is outside the hygiene store: gensyms[k + 1] is the
\* name the k-th gensym was derived from.

\* An interned name, and the k-th gensym.
Interned(n) == <<"name", n>>
Gensym(k) == <<"gensym", k>>

\* Ident { name, ctxt }
Ident(nm, ctxt) == [name |-> nm, ctxt |-> ctxt]

\* Symbol::gensymed: a symbol no earlier call has returned, derived from
\* the given name.
gensymed(g, nm) == [interner |-> Append(g, nm), ret |-> Gensym(Len(g))]

\* Symbol::interned: the name a gensym was derived from; a name itself.
interned(g, sym) == IF sym[1] = "gensym" THEN g[sym[2] + 1] ELSE sym

\* Ident::with_empty_ctxt
with_empty_ctxt(nm) == Ident(nm, empty)

\* from_ident that records the modern projection of the identifier's
\* context.
from_ident_records_modern(d, g, ident) ==
    LET gs == gensymed(g, ident.name) IN
    [data |-> [d EXCEPT !.gensym_to_ctxt = (gs.ret :> modern(d, ident.ctxt)) @@ @],
     interner |-> gs.interner,
     ret |-> gs.ret]

\* Symbol::from_ident(ident)
from_ident(d, g, ident) ==
    LET gs == gensymed(g, ident.name) IN
    [data |-> [d EXCEPT !.gensym_to_ctxt = (gs.ret :> ident.ctxt) @@ @],
     interner |-> gs.interner,
     ret |-> gs.ret]

\* Symbol::to_ident(self)
to_ident(d, g, self) ==
    IF self \in DOMAIN d.gensym_to_ctxt
    THEN Ident(interned(g, self), d.gensym_to_ctxt[self])
    ELSE with_empty_ctxt(self)

\* Largest number of gensyms the model explores.
MaxGensyms == 2

\* The interned names identifiers are built from.
Names == { Interned("x"), Interned("y") }

\* The symbols a caller can hold: the names and the gensyms made so far.
Symbols == Names \cup { Gensym(k) : k \in 0 .. (Len(gensyms) - 1) }

\* Symbol::from_ident(ident)
FromIdent(ident) ==
    LET r == from_ident(data, gensyms, ident) IN
    /\ Len(gensyms) < MaxGensyms
    /\ gensym_to_ctxt' = r.data.gensym_to_ctxt
    /\ gensyms' = r.interner
    /\ last' = Call("from_ident", ident.ctxt, "ok", r.ret, ident.name)
    /\ UNCHANGED <<marks, syntax_contexts, markings, peer, lines, builder, handler, panicking>>

\* Symbol::to_ident(self)
ToIdent(sym) ==
    /\ last' = Call("to_ident", empty, "ok", to_ident(data, gensyms, sym), sym)
    /\ UNCHANGED <<marks, syntax_contexts, markings, gensym_to_ctxt, outside>>

NextGensym ==
    \/ \E parent \in Marks(data) : Fresh(parent)
    \/ \E c \in Ctxts(data), m \in Marks(data) : ApplyMark(c, m)
    \/ ClearMarkings
    \/ \E nm \in Names, c \in Ctxts(data) : FromIdent(Ident(nm, c))
    \/ \E sym \in Symbols : ToIdent(sym)

SpecGensym == Init /\ [][NextGensym]_vars

----
\* FileMap: the table of line starts (lines: RefCell<Vec<BytePos>>), empty
\* after CodeMap::new_filemap.

\* Largest table length and largest position.
MaxLines == 3
MaxPos == 5

BytePositions == 0 .. MaxPos

FileCall(op, pos, outcome, ret) == [op |-> op, pos |-> pos, outcome |-> outcome, ret |-> ret]

\* next_line whose assertion admits a position equal to the last line start.
next_line_allows_equal(ls, pos) ==
    IF Len(ls) = 0 \/ ls[Len(ls)] <= pos
    THEN [lines |-> Append(ls, pos), outcome |-> "ok"]
    ELSE [lines |-> ls, outcome |-> "trap"]

\* FileMap::next_line(&self, pos): assert!, then push.
next_line(ls, pos) ==
    IF Len(ls) = 0 \/ ls[Len(ls)] < pos
    THEN [lines |-> Append(ls, pos), outcome |-> "ok"]
    ELSE [lines |-> ls, outcome |-> "trap"]

\* slice::binary_search over indices [lo, hi): Ok(index of an element equal
\* to x) or Err(index where x would be inserted).
RECURSIVE binary_search_by(_, _, _, _)
binary_search_by(ls, x, lo, hi) ==
    IF lo >= hi
    THEN [ok |-> FALSE, index |-> lo]
    ELSE LET mid == lo + ((hi - lo) \div 2) IN
         IF ls[mid + 1] = x THEN [ok |-> TRUE, index |-> mid]
         ELSE IF ls[mid + 1] < x THEN binary_search_by(ls, x, mid + 1, hi)
         ELSE binary_search_by(ls, x, lo, mid)

binary_search(ls, x) == binary_search_by(ls, x, 0, Len(ls))

\* lookup_line that returns the insertion index itself on a miss.
lookup_line_no_decrement(ls, pos) ==
    LET r == binary_search(ls, pos) IN
    IF r.ok THEN r.index ELSE r.index

\* lookup_line(lines, pos) -> isize
lookup_line(ls, pos) ==
    LET r == binary_search(ls, pos) IN
    IF r.ok THEN r.index ELSE r.index - 1

\* FileMap::lookup_line(&self, pos) -> Option<usize>
FileMap_lookup_line(ls, pos) ==
    IF Len(ls) = 0
    THEN [outcome |-> "ok", ret |-> None]
    ELSE LET line_index == lookup_line(ls, pos) IN
         IF ~(line_index < Len(ls)) THEN [outcome |-> "trap", ret |-> None]
         ELSE IF line_index >= 0 THEN [outcome |-> "ok", ret |-> Some(line_index)]
         ELSE [outcome |-> "ok", ret |-> None]

NextLine(pos) ==
    LET r == next_line(lines, pos) IN
    /\ Len(r.lines) <= MaxLines
    /\ lines' = r.lines
    /\ last' = FileCall("next_line", pos, r.outcome, None)
    /\ UNCHANGED <<marks, syntax_contexts, markings, gensym_to_ctxt, peer, gensyms, builder, handler, panicking>>

LookupLine(pos) ==
    LET r == FileMap_lookup_line(lines, pos) IN
    /\ last' = FileCall("lookup_line", pos, r.outcome, r.ret)
    /\ UNCHANGED <<marks, syntax_contexts, markings, gensym_to_ctxt, peer, gensyms, lines, builder, handler, panicking>>

NextFileMap ==
    \/ \E pos \in BytePositions : NextLine(pos)
    \/ \E pos \in BytePositions : LookupLine(pos)

SpecFileMap == Init /\ [][NextFileMap]_vars

----
\* DiagnosticBuilder: one builder at a time over one Handler.  The Handler
\* is seen through the calls the builder makes on it: bump_err_count() and
\* emitter.emit(&builder).

\* Most diagnostics that reach the emitter in one run.
MaxEmitted == 2

Levels == {"Bug", "Fatal", "PhaseFatal", "Error", "Warning", "Note", "Help", "Cancelled"}

Diagnostic(level, message) == [level |-> level, message |-> message]

\* Handler::bump_err_count(&self)
bump_err_count(h) == [h EXCEPT !.err_count = @ + 1]

\* handler.emitter.borrow_mut().emit(&db)
emitter_emit(h, diag) == [h EXCEPT !.emitted = Append(@, diag)]

\* Diagnostic::cancel(&mut self)
cancel(diag) == [diag EXCEPT !.level = "Cancelled"]

\* Diagnostic::cancelled(&self)
cancelled(diag) == diag.level = "Cancelled"

\* emit without the early return for a cancelled diagnostic.
emit_ignores_cancelled(h, diag) ==
    LET h1 == IF diag.level \in {"Bug", "Fatal", "PhaseFatal", "Error"}
              THEN bump_err_count(h)
              ELSE h
    IN [handler |-> emitter_emit(h1, diag), diagnostic |-> cancel(diag)]
\* DiagnosticBuilder::emit(&mut self).  The closing test of the level reads
\* it after cancel(), so panic_if_treat_err_as_bug is not reached.
emit(h, diag) ==
    IF cancelled(diag)
    THEN [handler |-> h, diagnostic |-> diag]
    ELSE LET h1 == IF diag.level \in {"Bug", "Fatal", "PhaseFatal", "Error"}
                   THEN bump_err_count(h)
                   ELSE h
         IN [handler |-> emitter_emit(h1, diag), diagnostic |-> cancel(diag)]

\* Drop that does not ask whether the thread is panicking.
drop_ignores_panicking(h, diag, pk) ==
    IF ~cancelled(diag)
    THEN LET db == emit(h, Diagnostic("Bug", "Error constructed but not emitted")) IN
         [handler |-> db.handler, panicking |-> TRUE, outcome |-> "trap"]
    ELSE [handler |-> h, panicking |-> pk, outcome |-> "ok"]

\* impl Drop for DiagnosticBuilder: the inner builder db is cancelled by its
\* own emit, so its drop during the unwinding does nothing.
drop(h, diag, pk) ==
    IF ~pk /\ ~cancelled(diag)
    THEN LET db == emit(h, Diagnostic("Bug", "Error constructed but not emitted")) IN
         [handler |-> db.handler, panicking |-> TRUE, outcome |-> "trap"]
    ELSE [handler |-> h, panicking |-> pk, outcome |-> "ok"]

\* DiagnosticBuilder::into_diagnostic(mut self): clone, cancel, and self is
\* dropped at the end of the call.
into_diagnostic(h, diag, pk) ==
    LET result == diag
        d == drop(h, cancel(diag), pk)
    IN [handler |-> d.handler, panicking |-> d.panicking, outcome |-> d.outcome, ret |-> result]

DbCall(op, outcome, ret) == [op |-> op, outcome |-> outcome, ret |-> ret]

DiagFrame == UNCHANGED <<marks, syntax_contexts, markings, gensym_to_ctxt, peer, gensyms, lines>>

\* DiagnosticBuilder::new(handler, level, message)
DbNew(level) ==
    /\ builder = None
    /\ ~panicking
    /\ Len(handler.emitted) < MaxEmitted
    /\ builder' = Some(Diagnostic(level, "m"))
    /\ last' = DbCall("new_builder", "ok", None)
    /\ UNCHANGED <<handler, panicking>>
    /\ DiagFrame

DbEmit ==
    /\ builder # None
    /\ ~panicking
    /\ LET r == emit(handler, builder[1]) IN
       /\ handler' = r.handler
       /\ builder' = Some(r.diagnostic)
    /\ last' = DbCall("emit", "ok", None)
    /\ UNCHANGED panicking
    /\ DiagFrame

DbCancel ==
    /\ builder # None
    /\ ~panicking
    /\ builder' = Some(cancel(builder[1]))
    /\ last' = DbCall("cancel", "ok", None)
    /\ UNCHANGED <<handler, panicking>>
    /\ DiagFrame

DbIntoDiagnostic ==
    /\ builder # None
    /\ ~panicking
    /\ LET r == into_diagnostic(handler, builder[1], panicking) IN
       /\ handler' = r.handler
       /\ panicking' = r.panicking
       /\ last' = DbCall("into_diagnostic", r.outcome, Some(r.ret))
    /\ builder' = None
    /\ DiagFrame

\* The builder goes out of scope, in normal flow or during an unwinding.
DbDrop ==
    /\ builder # None
    /\ LET r == drop(handler, builder[1], panicking) IN
       /\ handler' = r.handler
       /\ panicking' = r.panicking
       /\ last' = DbCall("drop", r.outcome, None)
    /\ builder' = None
    /\ DiagFrame

\* Code that holds the builder panics: std::thread::panicking() turns true.
Panic ==
    /\ builder # None
    /\ ~panicking
    /\ panicking' = TRUE
    /\ last' = DbCall("panic", "trap", None)
    /\ UNCHANGED <<handler, builder>>
    /\ DiagFrame

\* The unwinding ends (catch_unwind) once the builder has been dropped.
CatchUnwind ==
    /\ builder = None
    /\ panicking
    /\ panicking' = FALSE
    /\ last' = DbCall("catch_unwind", "ok", None)
    /\ UNCHANGED <<handler, builder>>
    /\ DiagFrame

NextDiag ==
    \/ \E level \in Levels : DbNew(level)
    \/ DbEmit
    \/ DbCancel
    \/ DbIntoDiagnostic
    \/ DbDrop
    \/ Panic
    \/ CatchUnwind

SpecDiag == Init /\ [][NextDiag]_vars

----
\* Building contexts with every modern flag set before the mark is first
\* used, and without clear_markings.

\* Largest table lengths in this specification.
ModernMarks == 3
ModernCtxts == 5

\* Mark m is the outer mark of a context that apply_mark built.
MarkUsed(d, m) == \E c \in Ctxts(d) \ {empty} : outer(d, c) = m

\* Mark::fresh(parent)
FreshBeforeUse(parent) ==
    LET r == fresh(data, parent) IN
    /\ Len(marks) < ModernMarks
    /\ marks' = r.data.marks
    /\ last' = Call("fresh", empty, "ok", r.ret, parent)
    /\ UNCHANGED <<syntax_contexts, markings, gensym_to_ctxt, outside>>

\* Mark::set_modern(self) on a mark that no apply_mark call has used yet.
SetModernBeforeUse(m) ==
    /\ ~MarkUsed(data, m)
    /\ marks' = [marks EXCEPT ![m + 1].modern = TRUE]
    /\ last' = Call("set_modern", empty, "ok", None, m)
    /\ UNCHANGED <<syntax_contexts, markings, gensym_to_ctxt, outside>>

\* SyntaxContext::apply_mark(self, mark)
ApplyMarkFixedFlags(c, m) ==
    LET r == apply_mark(data, c, m) IN
    /\ Len(r.data.syntax_contexts) <= ModernCtxts
    /\ syntax_contexts' = r.data.syntax_contexts
    /\ markings' = r.data.markings
    /\ last' = Call("apply_mark", c, r.outcome, r.ret, c)
    /\ UNCHANGED <<marks, gensym_to_ctxt, outside>>

NextModern ==
    \/ \E parent \in Marks(data) : FreshBeforeUse(parent)
    \/ \E m \in Marks(data) : SetModernBeforeUse(m)
    \/ \E c \in Ctxts(data), m \in Marks(data) : ApplyMarkFixedFlags(c, m)

SpecModern == Init /\ [][NextModern]_vars

----
\* The mark table when callers pass any Mark value to Mark::fresh:
\* Mark::from_u32 makes a Mark from any u32, and fresh stores its argument
\* unchecked.

\* The loop of Mark::modern.  fuel counts the remaining steps before the walk
\* must have revisited a mark, i.e. runs forever.
RECURSIVE mark_modern_walk(_, _, _)
mark_modern_walk(d, self, fuel) ==
    IF self = root THEN [outcome |-> "ok", ret |-> self]
    ELSE IF self >= Len(d.marks) THEN [outcome |-> "trap", ret |-> self]
    ELSE IF d.marks[self + 1].modern THEN [outcome |-> "ok", ret |-> self]
    ELSE IF fuel = 0 THEN [outcome |-> "diverge", ret |-> self]
    ELSE mark_modern_walk(d, d.marks[self + 1].parent, fuel - 1)

\* Mark::modern(self): [outcome, ret].
mark_modern(d, self) == mark_modern_walk(d, self, Len(d.marks))

\* Mark::from_u32(raw) for the raw values a caller passes.
from_u32(raw) == raw
RawValues == { from_u32(raw) : raw \in 0 .. MaxMarks }

\* Mark::fresh(parent) with any Mark value as parent.
FreshRaw(parent) ==
    LET r == fresh(data, parent) IN
    /\ Len(marks) < MaxMarks
    /\ marks' = r.data.marks
    /\ last' = Call("fresh", empty, "ok", r.ret, parent)
    /\ UNCHANGED <<syntax_contexts, markings, gensym_to_ctxt, outside>>

\* Mark::modern(self)
MarkModern(m) ==
    LET r == mark_modern(data, m) IN
    /\ last' = Call("mark_modern", empty, r.outcome, r.ret, m)
    /\ UNCHANGED <<marks, syntax_contexts, markings, gensym_to_ctxt, outside>>

NextRaw ==
    \/ \E parent \in RawValues : FreshRaw(parent)
    \/ \E m \in Marks(data) : SetModern(m)
    \/ \E m \in Marks(data) : MarkModern(m)
    \/ \E m \in Marks(data), a \in Marks(data) : IsDescendantOf(m, a)
    \/ \E c \in Ctxts(data), m \in Marks(data) : ApplyMark(c, m)
    \/ \E c \in Ctxts(data), e \in Marks(data) : Adjust(c, e)

SpecRaw == Init /\ [][NextRaw]_vars

----
\* Every operation of the hygiene engine on one store: the ones that write
\* the tables and the ones that only read them.

\* Largest table lengths in this specification.
FrameMarks == 2
FrameCtxts == 3

\* SyntaxContext::outer(self)
Outer(c) ==
    /\ last' = Call("outer", c, "ok", outer(data, c), c)
    /\ UNCHANGED <<marks, syntax_contexts, markings, gensym_to_ctxt, outside>>

\* SyntaxContext::modern(self)
Modern(c) ==
    /\ last' = Call("modern", c, "ok", modern(data, c), c)
    /\ UNCHANGED <<marks, syntax_contexts, markings, gensym_to_ctxt, outside>>

\* Mark::is_modern(self)
IsModern(m) ==
    /\ last' = Call("is_modern", empty, "ok", mark_is_modern(data, m), m)
    /\ UNCHANGED <<marks, syntax_contexts, markings, gensym_to_ctxt, outside>>

\* The ExpnInfo std_inject attaches.
FrameInfo == ExpnInfo(DUMMY_SP, NameAndSpan(MacroAttribute("std_inject"), None))

NextFrame ==
    \/ \E parent \in Marks(data) : Len(marks) < FrameMarks /\ Fresh(parent)
    \/ \E m \in Marks(data) : SetModern(m)
    \/ \E m \in Marks(data) : SetExpnInfo(m, FrameInfo)
    \/ ClearMarkings
    \/ \E c \in Ctxts(data), m \in Marks(data) :
           ApplyMark(c, m) /\ Len(syntax_contexts') <= FrameCtxts
    \/ \E c \in Ctxts(data) : RemoveMark(c)
    \/ \E c \in Ctxts(data), e \in Marks(data) : Adjust(c, e)
    \/ \E c \in Ctxts(data), e \in Marks(data), g \in Ctxts(data) : GlobAdjust(c, e, g)
    \/ \E c \in Ctxts(data), e \in Marks(data), g \in Ctxts(data) :
           ReverseGlobAdjust(c, e, g) /\ Len(syntax_contexts') <= FrameCtxts
    \/ \E c \in Ctxts(data) : Outer(c)
    \/ \E c \in Ctxts(data) : Modern(c)
    \/ \E m \in Marks(data) : IsModern(m)
    \/ \E m \in Marks(data) : GetExpnInfo(m)
    \/ \E m \in Marks(data), a \in Marks(data) : IsDescendantOf(m, a)

SpecFrame == Init /\ [][NextFrame]_vars

----
\* Two threads.  HygieneData::with reaches the store through the
\* thread_local! HYGIENE_DATA: the variables marks, syntax_contexts, markings
\* and gensym_to_ctxt are the store of thread "main", peer is the store of
\* thread "peer".

Threads == {"main", "peer"}

\* Largest table lengths per thread in the two-thread specification.
ThreadMarks == 2
ThreadCtxts == 2

\* HYGIENE_DATA declared as one static shared by all threads.
hygiene_data_shared(t) == "main"

\* thread_local! HYGIENE_DATA: the store a thread's calls reach is its own.
hygiene_data(t) == t

\* The store kept for thread k.
StoreOf(k) == IF k = "main" THEN data ELSE peer

\* HygieneData::with(f) on thread t, where f leaves the store as d2.
with(t, d2) ==
    IF hygiene_data(t) = "main"
    THEN /\ marks' = d2.marks
         /\ syntax_contexts' = d2.syntax_contexts
         /\ markings' = d2.markings
         /\ gensym_to_ctxt' = d2.gensym_to_ctxt
         /\ peer' = peer
    ELSE /\ peer' = d2
         /\ UNCHANGED <<marks, syntax_contexts, markings, gensym_to_ctxt>>

\* The record of a call made by thread t with argument arg.
ThreadCall(t, op, c, arg, outcome, ret) ==
    [thread |-> t, op |-> op, ctxt |-> c, arg |-> arg, outcome |-> outcome, ret |-> ret]

\* Mark::fresh(parent) on thread t
ThreadFresh(t, parent) ==
    LET d == StoreOf(hygiene_data(t))
        r == fresh(d, parent)
    IN /\ Len(d.marks) < ThreadMarks
       /\ with(t, r.data)
       /\ last' = ThreadCall(t, "fresh", empty, parent, "ok", r.ret)
       /\ UNCHANGED <<gensyms, lines, builder, handler, panicking>>

\* Mark::set_modern(self) on thread t
ThreadSetModern(t, m) ==
    LET d == StoreOf(hygiene_data(t)) IN
    /\ IF m < Len(d.marks)
       THEN /\ with(t, [d EXCEPT !.marks[m + 1].modern = TRUE])
            /\ last' = ThreadCall(t, "set_modern", empty, m, "ok", None)
       ELSE /\ with(t, d)
            /\ last' = ThreadCall(t, "set_modern", empty, m, "trap", None)
    /\ UNCHANGED <<gensyms, lines, builder, handler, panicking>>

\* SyntaxContext::apply_mark(self, mark) on thread t
ThreadApplyMark(t, c, m) ==
    LET d == StoreOf(hygiene_data(t)) IN
    /\ IF c < Len(d.syntax_contexts)
       THEN LET r == apply_mark(d, c, m) IN
            /\ Len(r.data.syntax_contexts) <= ThreadCtxts
            /\ with(t, r.data)
            /\ last' = ThreadCall(t, "apply_mark", c, m, r.outcome, r.ret)
       ELSE /\ with(t, d)
            /\ last' = ThreadCall(t, "apply_mark", c, m, "trap", c)
    /\ UNCHANGED <<gensyms, lines, builder, handler, panicking>>

\* clear_markings() on thread t
ThreadClearMarkings(t) ==
    /\ with(t, clear_markings(StoreOf(hygiene_data(t))))
    /\ last' = ThreadCall(t, "clear_markings", empty, None, "ok", None)
    /\ UNCHANGED <<gensyms, lines, builder, handler, panicking>>

\* Each thread passes the marks and contexts it was given by its own store.
NextThreads ==
    \/ \E t \in Threads : \E parent \in Marks(StoreOf(t)) : ThreadFresh(t, parent)
    \/ \E t \in Threads : \E m \in RawMarks(StoreOf(t)) : ThreadSetModern(t, m)
    \/ \E t \in Threads : \E c \in Ctxts(StoreOf(t)), m \in RawMarks(StoreOf(t)) :
           ThreadApplyMark(t, c, m)
    \/ \E t \in Threads : ThreadClearMarkings(t)

SpecThreads == Init /\ [][NextThreads]_vars

----
\* Expansion provenance of spans (garando_pos/src/lib.rs).

\* Span::source_equal
source_equal(self, other) == self.lo = other.lo /\ self.hi = other.hi

\* The recursion of Span::source_callsite.  Every step after the first
\* starts from the call_site stored for some mark, so a walk of more than
\* Len(marks) steps has repeated a span and never ends; fuel counts the
\* steps that remain before that.
RECURSIVE source_callsite_walk(_, _, _)
source_callsite_walk(d, self, fuel) ==
    LET info == expn_info(d, outer(d, self.ctxt)) IN
    IF info = None THEN [outcome |-> "ok", ret |-> self]
    ELSE IF fuel = 0 THEN [outcome |-> "diverge", ret |-> self]
    ELSE source_callsite_walk(d, info[1].call_site, fuel - 1)

\* Span::source_callsite
source_callsite(d, self) == source_callsite_walk(d, self, Len(d.marks))

\* The inner fn source_callee(info) of Span::source_callee.
RECURSIVE source_callee_walk(_, _, _)
source_callee_walk(d, info, fuel) ==
    LET next == expn_info(d, outer(d, info.call_site.ctxt)) IN
    IF next = None THEN [outcome |-> "ok", ret |-> info.callee]
    ELSE IF fuel = 0 THEN [outcome |-> "diverge", ret |-> info.callee]
    ELSE source_callee_walk(d, next[1], fuel - 1)

\* Span::source_callee
source_callee(d, self) ==
    LET info == expn_info(d, outer(d, self.ctxt)) IN
    IF info = None THEN [outcome |-> "ok", ret |-> None]
    ELSE LET r == source_callee_walk(d, info[1], Len(d.marks))
         IN [outcome |-> r.outcome, ret |-> IF r.outcome = "ok" THEN Some(r.ret) ELSE None]

\* format!("{}{}{}", pre, info.callee.name(), post), as the three pieces
\* (the quote in the desugaring pieces stands for the source's backquote).
macro_decl_name(callee) ==
    CASE callee.format.kind = "MacroAttribute" -> <<"#[", name(callee), "]">>
      [] callee.format.kind = "MacroBang" -> <<"", name(callee), "!">>
      [] callee.format.kind = "CompilerDesugaring" -> <<"desugaring of '", name(callee), "'">>

\* MacroBacktrace { call_site, macro_decl_name, def_site_span }
MacroBacktrace(call_site, decl_name, def_site_span) ==
    [call_site |-> call_site, macro_decl_name |-> decl_name, def_site_span |-> def_site_span]

\* The while-let loop of Span::macro_backtrace.
RECURSIVE macro_backtrace_loop(_, _, _, _, _)
macro_backtrace_loop(d, self, prev_span, result, fuel) ==
    LET info == expn_info(d, outer(d, self.ctxt)) IN
    IF info = None THEN [outcome |-> "ok", ret |-> result]
    ELSE IF fuel = 0 THEN [outcome |-> "diverge", ret |-> result]
    ELSE LET i == info[1]
             bt == MacroBacktrace(i.call_site, macro_decl_name(i.callee), i.callee.span)
         IN macro_backtrace_loop(d, i.call_site, self,
                IF ~source_equal(i.call_site, prev_span) THEN Append(result, bt) ELSE result,
                fuel - 1)

\* Span::macro_backtrace
macro_backtrace(d, self) == macro_backtrace_loop(d, self, DUMMY_SP, <<>>, Len(d.marks))

\* Depth of expansion nesting in the provenance specification.
ProvDepth == 3

\* The store after n expansions, each nested in the one before: mark k is
\* Mark::fresh(k - 1) and context k is SyntaxContext::empty().apply_mark(k).
RECURSIVE ProvBase(_)
ProvBase(n) ==
    IF n = 0 THEN HygieneDataNew
    ELSE LET f == fresh(ProvBase(n - 1), n - 1)
         IN apply_mark(f.data, empty, f.ret).data

\* Byte ranges of the spans in play: the dummy range and two source ranges.
ProvRanges == { <<0, 0>>, <<1, 2>>, <<5, 6>> }

\* The spans a caller can build over the contexts of d.
ProvSpans(d) == { Span(r[1], r[2], c) : r \in ProvRanges, c \in Ctxts(d) }

\* The callee recorded for the expansion of mark m: the root's is the one of
\* std_inject, the others differ in format, name and definition span.
ProvCallee(m) ==
    CASE m = root -> NameAndSpan(MacroAttribute("std_inject"), None)
      [] m = 1 -> NameAndSpan(MacroBang("a"), Some(Span(11, 12, empty)))
      [] m = 2 -> NameAndSpan(MacroAttribute("b"), None)
      [] OTHER -> NameAndSpan(CompilerDesugaring("c"), Some(Span(13, 14, empty)))

\* The values passed to set_expn_info for mark m: any call site for an
\* issued mark, the dummy call site for the root.
ProvInfos(d, m) ==
    IF m = root THEN { ExpnInfo(DUMMY_SP, ProvCallee(root)) }
    ELSE { ExpnInfo(sp, ProvCallee(m)) : sp \in ProvSpans(d) }

InitProv ==
    /\ marks = ProvBase(ProvDepth).marks
    /\ syntax_contexts = ProvBase(ProvDepth).syntax_contexts
    /\ markings = ProvBase(ProvDepth).markings
    /\ gensym_to_ctxt = ProvBase(ProvDepth).gensym_to_ctxt
    /\ InitOutside
    /\ last = Call("new", empty, "ok", None, empty)

\* The caller builds a span over an existing context.
HoldSpan(sp) ==
    /\ last' = Call("span", sp.ctxt, "ok", None, sp)
    /\ UNCHANGED <<marks, syntax_contexts, markings, gensym_to_ctxt, outside>>

\* Span::source_callsite(self)
SourceCallsite(sp) ==
    LET r == source_callsite(data, sp) IN
    /\ last' = Call("source_callsite", sp.ctxt, r.outcome, r.ret, sp)
    /\ UNCHANGED <<marks, syntax_contexts, markings, gensym_to_ctxt, outside>>

\* Span::source_callee(self)
SourceCallee(sp) ==
    LET r == source_callee(data, sp) IN
    /\ last' = Call("source_callee", sp.ctxt, r.outcome, r.ret, sp)
    /\ UNCHANGED <<marks, syntax_contexts, markings, gensym_to_ctxt, outside>>

\* Span::macro_backtrace(self)
MacroBacktraceOf(sp) ==
    LET r == macro_backtrace(data, sp) IN
    /\ last' = Call("macro_backtrace", sp.ctxt, r.outcome, r.ret, sp)
    /\ UNCHANGED <<marks, syntax_contexts, markings, gensym_to_ctxt, outside>>

\* The caller has annotated marks and not yet taken a span.
Annotating == last.op \in {"new", "set_expn_info"}

\* Marks are annotated first, then a span is taken and queried.  The
\* queries leave the store alone, so every store is queried with every span.
NextProv ==
    \/ Annotating /\ \E m \in Marks(data) : \E info \in ProvInfos(data, m) : SetExpnInfo(m, info)
    \/ Annotating /\ \E sp \in ProvSpans(data) : HoldSpan(sp)
    \/ ~Annotating /\ SourceCallsite(last.self)
    \/ ~Annotating /\ SourceCallee(last.self)
    \/ ~Annotating /\ MacroBacktraceOf(last.self)

SpecProv == InitProv /\ [][NextProv]_vars

----
\* Span merging and serialization (garando_pos/src/lib.rs, hygiene.rs).

\* Span::to
to(self, end) ==
    IF end.ctxt = empty THEN [end EXCEPT !.lo = self.lo]
    ELSE [self EXCEPT !.hi = end.hi]

\* Span::between with the context always taken from self.
between_keeps_self_ctxt(self, end) == Span(self.hi, end.lo, self.ctxt)

\* Span::between
between(self, end) ==
    Span(self.hi, end.lo, IF end.ctxt = empty THEN end.ctxt ELSE self.ctxt)

\* Span::until
until(self, end) ==
    Span(self.lo, end.lo, IF end.ctxt = empty THEN end.ctxt ELSE self.ctxt)

\* Number of expansions behind the contexts of the merged spans.
MergeDepth == 2

\* Byte positions of the merged spans.
MergePos == {0, 5, 10}

\* The spans a caller merges: any two positions, any existing context.
MergeSpans(d) == { Span(lo, hi, c) : lo \in MergePos, hi \in MergePos, c \in Ctxts(d) }

\* The record of a call that merges the receiver with the span end.
MergeCall(op, self, end, ret) ==
    [op |-> op, ctxt |-> self.ctxt, outcome |-> "ok", ret |-> ret, self |-> self, end |-> end]

InitMerge ==
    /\ marks = ProvBase(MergeDepth).marks
    /\ syntax_contexts = ProvBase(MergeDepth).syntax_contexts
    /\ markings = ProvBase(MergeDepth).markings
    /\ gensym_to_ctxt = ProvBase(MergeDepth).gensym_to_ctxt
    /\ InitOutside
    /\ last = Call("new", empty, "ok", None, empty)

\* Span::to(self, end)
To(a, b) ==
    /\ last' = MergeCall("to", a, b, to(a, b))
    /\ UNCHANGED <<marks, syntax_contexts, markings, gensym_to_ctxt, outside>>

\* Span::between(self, end)
Between(a, b) ==
    /\ last' = MergeCall("between", a, b, between(a, b))
    /\ UNCHANGED <<marks, syntax_contexts, markings, gensym_to_ctxt, outside>>

\* Span::until(self, end)
Until(a, b) ==
    /\ last' = MergeCall("until", a, b, until(a, b))
    /\ UNCHANGED <<marks, syntax_contexts, markings, gensym_to_ctxt, outside>>

\* Serialized forms (serde data model): the unit value, a u32, and a struct
\* with the fields lo and hi.
Unit == [kind |-> "unit"]
U32(n) == [kind |-> "u32", value |-> n]
Struct(lo, hi) == [kind |-> "struct", lo |-> lo, hi |-> hi]

\* SyntaxContext serialized as its index.
serialize_ctxt_as_u32(c) == U32(c)

\* impl Serialize for SyntaxContext: serialize_unit().
serialize_ctxt(c) == Unit

\* impl Deserialize for SyntaxContext: a unit is read and mapped to
\* SyntaxContext::empty(); any other input is an error.
deserialize_ctxt(v) ==
    IF v.kind = "unit" THEN [outcome |-> "ok", ret |-> empty]
    ELSE [outcome |-> "error", ret |-> empty]

\* derive(Serialize) for Span: lo and hi; ctxt is #[serde(skip)].
serialize_span(sp) == Struct(sp.lo, sp.hi)

\* derive(Deserialize) for Span: lo and hi are read, the skipped ctxt is
\* SyntaxContext::default(), which is SyntaxContext(0).
deserialize_span(v) ==
    IF v.kind = "struct" THEN [outcome |-> "ok", ret |-> Span(v.lo, v.hi, 0)]
    ELSE [outcome |-> "error", ret |-> DUMMY_SP]

\* The inputs a deserializer is run on.
SerialValues == {Unit} \cup { Struct(lo, hi) : lo \in MergePos, hi \in MergePos }

SerializeCtxt(c) ==
    /\ last' = Call("serialize_ctxt", c, "ok", serialize_ctxt(c), c)
    /\ UNCHANGED <<marks, syntax_contexts, markings, gensym_to_ctxt, outside>>

DeserializeCtxt(v) ==
    LET r == deserialize_ctxt(v) IN
    /\ last' = Call("deserialize_ctxt", empty, r.outcome, r.ret, v)
    /\ UNCHANGED <<marks, syntax_contexts, markings, gensym_to_ctxt, outside>>

SerializeSpan(sp) ==
    /\ last' = Call("serialize_span", sp.ctxt, "ok", serialize_span(sp), sp)
    /\ UNCHANGED <<marks, syntax_contexts, markings, gensym_to_ctxt, outside>>

DeserializeSpan(v) ==
    LET r == deserialize_span(v) IN
    /\ last' = Call("deserialize_span", empty, r.outcome, r.ret, v)
    /\ UNCHANGED <<marks, syntax_contexts, markings, gensym_to_ctxt, outside>>

NextMerge ==
    \/ \E a \in MergeSpans(data), b \in MergeSpans(data) : To(a, b)
    \/ \E a \in MergeSpans(data), b \in MergeSpans(data) : Between(a, b)
    \/ \E a \in MergeSpans(data), b \in MergeSpans(data) : Until(a, b)
    \/ \E c \in Ctxts(data) : SerializeCtxt(c)
    \/ \E v \in SerialValues : DeserializeCtxt(v)
    \/ \E sp \in MergeSpans(data) : SerializeSpan(sp)
    \/ \E v \in SerialValues : DeserializeSpan(v)

SpecMerge == InitMerge /\ [][NextMerge]_vars

----
\* parent followed k times from m (the root is its own parent).
RECURSIVE parent_n(_, _, _)
parent_n(d, m, k) == IF k = 0 THEN m ELSE parent_n(d, d.marks[m + 1].parent, k - 1)

\* The marks on the parent chain from m up to the root, m included.
ParentChain(d, m) == { parent_n(d, m, k) : k \in 0 .. Len(d.marks) }

\* The expansion levels of span sp, innermost first: the ExpnInfo of the
\* outer mark of sp, then that of the outer mark of its call site, and so on
\* (cut after fuel levels when the chain of call sites is cyclic).
RECURSIVE levels_walk(_, _, _)
levels_walk(d, sp, fuel) ==
    LET info == expn_info(d, outer(d, sp.ctxt)) IN
    IF info = None \/ fuel = 0 THEN <<>>
    ELSE <<info[1]>> \o levels_walk(d, info[1].call_site, fuel - 1)
ExpansionLevels(d, sp) == levels_walk(d, sp, Len(d.marks))

\* The record macro_backtrace builds for an expansion level.
LevelRecord(info) ==
    MacroBacktrace(info.call_site, macro_decl_name(info.callee), info.callee.span)

\* The elements of a sequence.
Range(seq) == { seq[i] : i \in 1 .. Len(seq) }

\* The cache of d holds the entry of every context of the table, as it does
\* as long as no clear_markings call has dropped one.
CacheComplete(d) ==
    \A c \in Ctxts(d) \ {empty} :
        /\ <<prev_ctxt(d, c), outer(d, c)>> \in DOMAIN d.markings
        /\ d.markings[<<prev_ctxt(d, c), outer(d, c)>>] = c

\* prev_ctxt followed k times from c (the empty context is its own prev_ctxt).
RECURSIVE prev_n(_, _, _)
prev_n(d, c, k) == IF k = 0 THEN c ELSE prev_n(d, prev_ctxt(d, c), k - 1)

\* The number of contexts on the prev_ctxt chain of c, outermost first, that
\* come before the first one whose outer mark has e as a descendant.
StripCount(d, c, e) ==
    LET Stops(k) == is_descendant_of(d, e, outer(d, prev_n(d, c, k))) # "false"
        N == Len(d.syntax_contexts)
    IN CHOOSE k \in 0 .. N : Stops(k) /\ \A j \in 0 .. (k - 1) : ~Stops(j)

\* The store after the step being taken.
data_next == HygieneData(marks', syntax_contexts', markings', gensym_to_ctxt')

\* The mark of the last apply_mark call, recovered from its receiver and its
\* result: a result that is not a later entry built on the receiver came from
\* the cancellation rule, whose mark is the receiver's outer mark.
LastApplyMark ==
    IF last.ret # last.ctxt /\ prev_ctxt(data, last.ret) = last.ctxt /\ last.ret # empty
    THEN outer(data, last.ret)
    ELSE outer(data, last.ctxt)

\* C1 (as stated): for every context c and every mark m of the table,
\* c.apply_mark(m) followed by remove_mark returns m and leaves c.
C1_CancellationLawAnyMark ==
    \A c \in Ctxts(data), m \in Marks(data) :
        LET a == apply_mark(data, c, m)
            r == remove_mark(a.data, a.ret)
        IN a.outcome = "ok" /\ r.ret = m /\ r.self = c

\* C1 (amended): the cancellation law holds for every context c and every
\* mark m of the table unless c is non-empty and m is the outer mark of c
\* (there apply_mark returns c's prev_ctxt, and remove_mark on that does not
\* give back (c, m)).
C1_CancellationLaw ==
    \A c \in Ctxts(data), m \in Marks(data) :
        LET a == apply_mark(data, c, m)
            r == remove_mark(a.data, a.ret)
        IN IF m # outer(data, c) \/ c = empty
           THEN a.outcome = "ok" /\ r.ret = m /\ r.self = c
           ELSE a.ret = prev_ctxt(data, c) /\ <<r.self, r.ret>> # <<c, m>>

\* A remove_mark call on a context that apply_mark(c, m) built gave back m
\* and left c.
C1_Witness ==
    /\ last.op = "remove_mark"
    /\ last.ctxt # empty
    /\ <<last.self, last.ret>> \in DOMAIN markings
    /\ markings[<<last.self, last.ret>>] = last.ctxt
    /\ last.ret # outer(data, last.self)

\* C2: for every context c and every mark m of the table,
\* c.apply_mark(m).apply_mark(m) == c.
C2_DoubleApplyCancels ==
    \A c \in Ctxts(data), m \in Marks(data) :
        LET a == apply_mark(data, c, m)
            b == apply_mark(a.data, a.ret, m)
        IN a.outcome = "ok" /\ b.outcome = "ok" /\ b.ret = c

\* C3: once apply_mark(c, m) has returned r, a later apply_mark(c, m) returns
\* r again, whatever operation ran in between (stated for the step right
\* after the call: the call just made would return the same value again).
C3_MemoizationDeterminism ==
    [][(last.op = "apply_mark" /\ last.outcome = "ok")
        => apply_mark(data_next, last.ctxt, LastApplyMark).ret = last.ret]_vars

\* C4: when m differs from the outer mark of c, r = c.apply_mark(m) has
\* outer mark m and prev_ctxt c and is not c; and for the mark m1 that
\* Mark::fresh just returned, empty().apply_mark(m1) is not empty, has outer
\* mark m1, and applying m1 to it again returns the empty context.
C4_ApplyMarkCreates ==
    /\ \A c \in Ctxts(data), m \in Marks(data) :
           m # outer(data, c) =>
               LET a == apply_mark(data, c, m) IN
               /\ a.outcome = "ok"
               /\ outer(a.data, a.ret) = m
               /\ prev_ctxt(a.data, a.ret) = c
               /\ a.ret # c
    /\ last.op = "fresh" =>
           LET m1 == last.ret
               a == apply_mark(data, empty, m1)
               b == apply_mark(a.data, a.ret, m1)
           IN /\ a.outcome = "ok"
              /\ a.ret # empty
              /\ outer(a.data, a.ret) = m1
              /\ b.ret = empty

\* apply_mark on the empty context with the newest mark returned a new
\* context built on the empty context.
C4_Witness ==
    /\ last.op = "apply_mark"
    /\ last.outcome = "ok"
    /\ last.ctxt = empty
    /\ last.ret # empty
    /\ prev_ctxt(data, last.ret) = empty
    /\ outer(data, last.ret) = Len(marks) - 1

\* C5: for every non-root mark m that is flagged modern,
\* c1 = empty().apply_mark(m) satisfies c1.modern() == c1.
C5_ModernMarkOwnProjection ==
    \A m \in Marks(data) \ {root} :
        marks[m + 1].modern =>
            LET a == apply_mark(data, empty, m) IN
            a.outcome = "ok" /\ modern(a.data, a.ret) = a.ret

\* C6: when adjust returns, it returns None exactly when expansion was
\* already a descendant of the context's outer mark, it then leaves the
\* context unchanged, and expansion is a descendant of the outer mark of the
\* resulting context.
C6_AdjustNoneIffDescendant ==
    \A c \in Ctxts(data), e \in RawMarks(data) :
        LET a == adjust(data, c, e) IN
        a.outcome = "ok" =>
            /\ (a.ret = None) <=> (is_descendant_of(data, e, outer(data, c)) = "true")
            /\ (a.ret = None) => (a.self = c)
            /\ (a.ret # None) => (a.self # c)
            /\ is_descendant_of(data, e, outer(data, a.self)) = "true"

\* An adjust call stripped at least one mark and returned Some.
C6_Witness ==
    /\ last.op = "adjust"
    /\ last.outcome = "ok"
    /\ last.ret # None
    /\ last.self # last.ctxt

C8_GlobAdjustLockstep ==
    \A c \in Ctxts(data), e \in RawMarks(data), g \in Ctxts(data) :
        LET r == glob_adjust(data, c, e, g)
            n == StripCount(data, g, e)
            differ == {i \in 1 .. n :
                          outer(data, prev_n(data, c, i - 1)) # outer(data, prev_n(data, g, i - 1))}
            first == CHOOSE i \in differ : \A j \in differ : i <= j
            c1 == prev_n(data, c, n)
        IN r.outcome = "ok" =>
            IF differ # {}
            THEN r.ret = None /\ r.removed = first /\ r.self = prev_n(data, c, first)
            ELSE /\ r.removed = n
                 /\ IF is_descendant_of(data, e, outer(data, c1)) = "true"
                    THEN /\ r.self = c1
                         /\ r.ret = Some(IF n = 0 THEN None
                                         ELSE Some(outer(data, prev_n(data, g, n - 1))))
                    ELSE r.ret = None

\* A glob_adjust call removed marks in lockstep and succeeded with a scope.
C8_Witness ==
    /\ last.op = "glob_adjust"
    /\ last.outcome = "ok"
    /\ last.ret # None
    /\ last.ret # Some(None)
    /\ last.self # last.ctxt

\* C9: if glob_adjust(expansion, g) on c0 returns Some(s) and leaves c1, then
\* reverse_glob_adjust(expansion, g) on c1 returns Some(s) and leaves c0.
C9_ReverseUndoesGlobAdjust ==
    \A c0 \in Ctxts(data), e \in RawMarks(data), g \in Ctxts(data) :
        LET ga == glob_adjust(data, c0, e, g)
            rv == reverse_glob_adjust(data, ga.self, e, g)
        IN (ga.outcome = "ok" /\ ga.ret # None) =>
               rv.outcome = "ok" /\ rv.ret = ga.ret /\ rv.self = c0

C11_AppendOnly ==
    [][/\ Len(marks') >= Len(marks)
       /\ Len(syntax_contexts') >= Len(syntax_contexts)
       /\ marks'[root + 1].parent = root
       /\ syntax_contexts'[empty + 1] = SyntaxContextDataDefault
       /\ \A c \in Ctxts(data) : syntax_contexts'[c + 1] = syntax_contexts[c + 1]
       /\ \A m \in Marks(data) :
              /\ marks'[m + 1].parent = marks[m + 1].parent
              /\ marks[m + 1].modern => marks'[m + 1].modern]_vars

\* Both tables have grown, a mark has been made modern, and the cache has
\* been cleared afterwards.
C11_Witness ==
    /\ Len(marks) = MaxMarks
    /\ Len(syntax_contexts) = MaxCtxts
    /\ \E m \in Marks(data) : marks[m + 1].modern
    /\ last.op = "clear_markings"

\* C13: Mark::fresh(parent) succeeds for every parent value and returns the
\* previous length of the mark table, which is not the root and not a mark
\* issued before; the new entry has the given parent, is not modern and has
\* no expn_info; every existing mark entry, the context table and the cache
\* are as before.
C13_FreshFrame ==
    /\ \A parent \in RawMarks(data) :
           LET r == fresh(data, parent) IN
           /\ r.ret = Len(marks)
           /\ r.ret # root
           /\ r.ret \notin Marks(data)
           /\ Marks(r.data) = Marks(data) \cup {r.ret}
           /\ r.data.marks[r.ret + 1].parent = parent
           /\ mark_is_modern(r.data, r.ret) = FALSE
           /\ expn_info(r.data, r.ret) = None
           /\ \A m \in Marks(data) : r.data.marks[m + 1] = marks[m + 1]
           /\ r.data.syntax_contexts = syntax_contexts
           /\ r.data.markings = markings
    /\ last.op = "fresh" =>
           /\ last.outcome = "ok"
           /\ last.ret = Len(marks) - 1
           /\ last.ret # root
           /\ mark_is_modern(data, last.ret) = FALSE
           /\ expn_info(data, last.ret) = None

\* A second mark was issued while a modern mark, a non-empty context and a
\* cache entry already existed.
C13_Witness ==
    /\ last.op = "fresh"
    /\ last.ret = 2
    /\ mark_is_modern(data, 1)
    /\ Len(syntax_contexts) > 1
    /\ markings # EmptyMap

\* C12: a mark's expn_info changes at most once, from None to Some: in no
\* step does a mark that already has a stored value get a different one.
C12_ExpnInfoSetOnce ==
    [][\A m \in Marks(data) :
          expn_info(data, m) # None => expn_info(data_next, m) = expn_info(data, m)]_vars

\* C14: m.is_descendant_of(a) returns, and returns true exactly when a is on
\* the parent chain from m (included) to the root: true for a = m, true for
\* a = root, true for a mark and its parent, false for the root and any
\* other mark.
C14_DescendantIffOnParentChain ==
    /\ \A m \in Marks(data), a \in Marks(data) :
           /\ is_descendant_of(data, m, a) \in {"true", "false"}
           /\ is_descendant_of(data, m, a) = "true" <=> a \in ParentChain(data, m)
           /\ is_descendant_of(data, m, m) = "true"
           /\ is_descendant_of(data, m, root) = "true"
           /\ is_descendant_of(data, m, marks[m + 1].parent) = "true"
           /\ a # root => is_descendant_of(data, root, a) = "false"
    /\ (last.op = "is_descendant_of" /\ last.self < Len(marks) /\ last.outcome = "ok") =>
           \E a \in RawMarks(data) :
               last.ret = is_descendant_of(data, last.self, a)
    /\ (last.op = "fresh" /\ last.outcome = "ok") =>
           /\ is_descendant_of(data, last.ret, marks[last.ret + 1].parent) = "true"
           /\ is_descendant_of(data, marks[last.ret + 1].parent, last.ret) = "false"

\* is_descendant_of answered false for a mark whose parent is not the root:
\* the walk passed an intermediate mark and stopped at the root.
C14_Witness ==
    /\ last.op = "is_descendant_of"
    /\ last.ret = "false"
    /\ last.self = 2
    /\ marks[last.self + 1].parent = 1
    /\ is_descendant_of(data, 2, 1) = "true"

\* C15: source_callsite, source_callee and macro_backtrace finish for every
\* span, whatever was passed to set_expn_info.
C15_ProvenanceWalksTerminate ==
    \A sp \in ProvSpans(data) :
        /\ source_callsite(data, sp).outcome = "ok"
        /\ source_callee(data, sp).outcome = "ok"
        /\ macro_backtrace(data, sp).outcome = "ok"

\* C16: for a span with exactly three expansion levels whose second level's
\* call_site is byte-range-equal to the first level's call_site,
\* macro_backtrace does not emit a record for both of these levels.
C16_BacktraceDedup ==
    \A sp \in ProvSpans(data) :
        LET lv == ExpansionLevels(data, sp)
            bt == macro_backtrace(data, sp)
        IN (/\ bt.outcome = "ok"
            /\ Len(lv) = 3
            /\ source_equal(lv[2].call_site, lv[1].call_site)) =>
               ~(/\ LevelRecord(lv[1]) \in Range(bt.ret)
                 /\ LevelRecord(lv[2]) \in Range(bt.ret))

\* C17: macro_backtrace returns the records of the span's expansion levels
\* in order, innermost first, each with its level's call_site and definition
\* span; a level without a record has a call_site byte-range-equal to the
\* call_site of the closest earlier level that has a record; a span without
\* expansion levels gets the empty sequence.
C17_BacktraceLevelsInOrder ==
    \A sp \in ProvSpans(data) :
        LET lv == ExpansionLevels(data, sp)
            bt == macro_backtrace(data, sp)
            recs == [k \in 1 .. Len(lv) |-> LevelRecord(lv[k])]
            Emitted(r) == r \in Range(bt.ret)
        IN bt.outcome = "ok" =>
               /\ bt.ret = SelectSeq(recs, Emitted)
               /\ lv = <<>> => bt.ret = <<>>
               /\ \A k \in 1 .. Len(lv) :
                      ~Emitted(recs[k]) =>
                          \E j \in 1 .. (k - 1) :
                              /\ Emitted(recs[j])
                              /\ \A i \in (j + 1) .. (k - 1) : ~Emitted(recs[i])
                              /\ source_equal(lv[k].call_site, lv[j].call_site)

\* C18: source_callsite returns; it returns the span itself when the outer
\* mark of its context has no expn_info, otherwise the call_site of the last
\* expansion level; the outer mark of the returned span's context has no
\* expn_info.
C18_SourceCallsiteEndOfChain ==
    \A sp \in ProvSpans(data) :
        LET lv == ExpansionLevels(data, sp)
            r == source_callsite(data, sp)
        IN /\ r.outcome = "ok"
           /\ expn_info(data, outer(data, sp.ctxt)) = None => r.ret = sp
           /\ expn_info(data, outer(data, sp.ctxt)) # None => r.ret = lv[Len(lv)].call_site
           /\ expn_info(data, outer(data, r.ret.ctxt)) = None

\* C19: for all spans a and b, a.to(b), a.between(b) and a.until(b) carry
\* b's context when b's context is the empty context and a's context
\* otherwise, and their byte ranges are (a.lo, b.hi), (a.hi, b.lo) and
\* (a.lo, b.lo); Span{0,5,X}.to(Span{5,10,empty}) is Span{0,10,empty} and
\* Span{0,5,X}.to(Span{5,10,Y}) is Span{0,10,X} for Y not empty.
C19_SpanMergeTieBreak ==
    /\ \A a \in MergeSpans(data), b \in MergeSpans(data) :
           LET tie == IF b.ctxt = empty THEN b.ctxt ELSE a.ctxt IN
           /\ to(a, b) = Span(a.lo, b.hi, tie)
           /\ between(a, b) = Span(a.hi, b.lo, tie)
           /\ until(a, b) = Span(a.lo, b.lo, tie)
    /\ \A X \in Ctxts(data), Y \in Ctxts(data) \ {empty} :
           /\ to(Span(0, 5, X), Span(5, 10, empty)) = Span(0, 10, empty)
           /\ to(Span(0, 5, X), Span(5, 10, Y)) = Span(0, 10, X)
    /\ last.op \in {"to", "between", "until"} =>
           /\ last.ret.ctxt = IF last.end.ctxt = empty THEN empty ELSE last.self.ctxt
           /\ last.op = "to" => last.ret.lo = last.self.lo /\ last.ret.hi = last.end.hi
           /\ last.op = "between" => last.ret.lo = last.self.hi /\ last.ret.hi = last.end.lo
           /\ last.op = "until" => last.ret.lo = last.self.lo /\ last.ret.hi = last.end.lo

\* between was called on two spans of different non-empty contexts and
\* returned a span in the receiver's context.
C19_Witness ==
    /\ last.op = "between"
    /\ last.self = Span(0, 5, 1)
    /\ last.end = Span(10, 10, 2)
    /\ last.ret = Span(5, 10, 1)

\* C20: clear_markings is not observable.  After a sequence of operations
\* that has left the cache complete, an apply_mark call returns the same
\* value whether or not clear_markings is called just before it.
C20_CacheNotObservable ==
    CacheComplete(data) =>
        \A c \in Ctxts(data), m \in Marks(data) :
            apply_mark(clear_markings(data), c, m).ret = apply_mark(data, c, m).ret

\* C21: a clear_markings call leaves the markings cache empty and changes
\* nothing else: the mark table, the syntax-context table and the gensym map
\* are as before, and every existing SyntaxContext keeps its outer mark,
\* prev_ctxt and modern projection.
C21_ClearMarkingsFrame ==
    [][last'.op = "clear_markings" =>
          /\ markings' = EmptyMap
          /\ marks' = marks
          /\ syntax_contexts' = syntax_contexts
          /\ gensym_to_ctxt' = gensym_to_ctxt
          /\ Ctxts(data_next) = Ctxts(data)
          /\ \A c \in Ctxts(data) :
                 /\ outer(data_next, c) = outer(data, c)
                 /\ prev_ctxt(data_next, c) = prev_ctxt(data, c)
                 /\ modern(data_next, c) = modern(data, c)]_vars

\* clear_markings has just emptied the cache of a store that holds marks,
\* contexts and a registered gensym.
C21_Witness ==
    /\ last.op = "clear_markings"
    /\ markings = EmptyMap
    /\ Len(marks) > 1
    /\ Len(syntax_contexts) = MaxCtxts
    /\ gensym_to_ctxt # EmptyMap

\* C22: the symbol returned by from_ident(id) is a new key of the gensym map
\* and to_ident gives it id's context; no later step (from_ident,
\* apply_mark, clear_markings, ...) changes the context to_ident gives a
\* registered symbol; to_ident of a symbol that from_ident never returned
\* gives the empty context.
C22_GensymRoundTrip ==
    [][/\ (last'.op = "from_ident" /\ gensyms' # gensyms) =>
              /\ last'.ret \notin DOMAIN gensym_to_ctxt
              /\ to_ident(data_next, gensyms', last'.ret).ctxt = last'.ctxt
       /\ \A sym \in DOMAIN gensym_to_ctxt :
              to_ident(data_next, gensyms', sym).ctxt = to_ident(data, gensyms, sym).ctxt
       /\ \A sym \in Symbols \ DOMAIN gensym_to_ctxt :
              to_ident(data, gensyms, sym).ctxt = empty
       /\ last'.op = "to_ident" =>
              last'.ret.ctxt = IF last'.self \in DOMAIN gensym_to_ctxt
                               THEN gensym_to_ctxt[last'.self] ELSE empty]_vars

\* to_ident returned the non-empty context of the first gensym after a
\* second from_ident with another context and a clear_markings call.
C22_Witness ==
    /\ last.op = "to_ident"
    /\ last.self = Gensym(0)
    /\ last.ret.ctxt # empty
    /\ Len(gensyms) = MaxGensyms
    /\ gensym_to_ctxt[Gensym(1)] # gensym_to_ctxt[Gensym(0)]
    /\ markings = EmptyMap

\* C23: serializing any SyntaxContext and deserializing the result gives
\* the empty context; serializing any Span and deserializing the result
\* gives the same byte range with the empty context; every Span a
\* deserializer returns carries the empty context.
C23_SerializationDropsContext ==
    /\ \A c \in Ctxts(data) :
           deserialize_ctxt(serialize_ctxt(c)) = [outcome |-> "ok", ret |-> empty]
    /\ \A sp \in MergeSpans(data) :
           deserialize_span(serialize_span(sp)) =
               [outcome |-> "ok", ret |-> Span(sp.lo, sp.hi, empty)]
    /\ \A v \in SerialValues :
           /\ deserialize_span(v).outcome = "ok" => deserialize_span(v).ret.ctxt = empty
           /\ deserialize_ctxt(v).outcome = "ok" => deserialize_ctxt(v).ret = empty
    /\ (last.op = "deserialize_span" /\ last.outcome = "ok") => last.ret.ctxt = empty
    /\ (last.op = "deserialize_ctxt" /\ last.outcome = "ok") => last.ret = empty

\* A span of a non-empty context was serialized, and reading the result
\* back gives the empty context.
C23_Witness ==
    /\ last.op = "serialize_span"
    /\ last.self = Span(0, 5, 2)
    /\ deserialize_span(last.ret) = [outcome |-> "ok", ret |-> Span(0, 5, empty)]
    /\ deserialize_ctxt(serialize_ctxt(last.self.ctxt)).ret # last.self.ctxt

\* C24: each thread starts with a store holding only the root mark and the
\* empty context; a step of one thread leaves the store of the other thread
\* (mark table, context table, markings cache, gensym map) as it was, and
\* what the step returns is what the operation returns on the calling
\* thread's own store.
C24_ThreadStoresIndependent ==
    [][/\ last.op = "new" => \A t \in Threads : StoreOf(t) = HygieneDataNew
       /\ \A t \in Threads :
              LET own == StoreOf(t)
                  own_next == IF t = "main" THEN data_next ELSE peer'
              IN /\ last'.thread # t => own_next = own
                 /\ last'.thread = t =>
                        /\ last'.op = "fresh" =>
                               last'.ret = fresh(own, last'.arg).ret
                        /\ (last'.op = "apply_mark" /\ last'.outcome = "ok") =>
                               /\ last'.ret = apply_mark(own, last'.ctxt, last'.arg).ret
                               /\ own_next = apply_mark(own, last'.ctxt, last'.arg).data]_vars

\* Thread "peer" has just issued a mark while thread "main" holds a store
\* of its own with a modern mark and a context.
C24_Witness ==
    /\ last.op = "fresh"
    /\ last.thread = "peer"
    /\ Len(peer.marks) = ThreadMarks
    /\ Len(marks) = ThreadMarks
    /\ mark_is_modern(data, 1)
    /\ Len(syntax_contexts) = ThreadCtxts
    /\ Len(peer.syntax_contexts) = 1

\* The table of line starts is strictly increasing.
StrictlyIncreasing(ls) == \A i, j \in 1 .. Len(ls) : i < j => ls[i] < ls[j]

\* C26: next_line keeps the table of line starts strictly increasing: with a
\* position not greater than the last line start it panics and registers
\* nothing; on an empty table or with a greater position it appends exactly
\* that position.
C26_NextLineStrictlyIncreasing ==
    [][/\ StrictlyIncreasing(lines) /\ StrictlyIncreasing(lines')
       /\ last'.op = "next_line" =>
              IF Len(lines) > 0 /\ last'.pos <= lines[Len(lines)]
              THEN last'.outcome = "trap" /\ lines' = lines
              ELSE last'.outcome = "ok" /\ lines' = Append(lines, last'.pos)]_vars

\* next_line has just refused a position equal to the last of two line starts.
C26_Witness ==
    /\ last.op = "next_line"
    /\ last.outcome = "trap"
    /\ Len(lines) = 2
    /\ last.pos = lines[2]

\* C27: on the strictly increasing table, lookup_line returns the index of
\* the last line start <= pos and -1 when pos is before the first line start;
\* FileMap::lookup_line returns None for -1 and for the empty table, and
\* never fails its assertion.
C27_LookupLineLastStartAtOrBefore ==
    /\ \A pos \in BytePositions :
          LET at_or_before == { i \in 0 .. Len(lines) - 1 : lines[i + 1] <= pos } IN
          Len(lines) > 0 =>
              lookup_line(lines, pos) =
                  IF at_or_before = {} THEN 0 - 1
                  ELSE CHOOSE i \in at_or_before : \A j \in at_or_before : j <= i
    /\ last.op = "lookup_line" =>
          /\ last.outcome = "ok"
          /\ last.ret = IF Len(lines) = 0 \/ lookup_line(lines, last.pos) = 0 - 1
                        THEN None
                        ELSE Some(lookup_line(lines, last.pos))

\* Both answers occur on a table of three line starts: a position inside the
\* last line, and a position before the first line start.
C27_Witness ==
    /\ last.op = "lookup_line"
    /\ Len(lines) = MaxLines
    /\ lines[1] > 0
    /\ last.pos > lines[MaxLines]
    /\ last.ret = Some(MaxLines - 1)
    /\ lookup_line(lines, 0) = 0 - 1

\* C25: dropping a builder whose diagnostic is not cancelled, on a thread
\* that is not panicking, sends the Bug diagnostic "Error constructed but not
\* emitted" to the emitter and panics; emit and cancel leave the builder
\* cancelled, and dropping a cancelled builder (also the drop that ends
\* into_diagnostic) emits nothing and does not panic.
C25_DropBombUnlessEmittedOrCancelled ==
    [][/\ last'.op = "drop" =>
              IF ~panicking /\ ~cancelled(builder[1])
              THEN /\ handler'.emitted =
                          Append(handler.emitted,
                                 Diagnostic("Bug", "Error constructed but not emitted"))
                   /\ last'.outcome = "trap"
                   /\ panicking'
              ELSE /\ handler' = handler
                   /\ last'.outcome = "ok"
                   /\ panicking' = panicking
       /\ last'.op \in {"emit", "cancel"} => cancelled(builder'[1])
       /\ last'.op = "into_diagnostic" =>
              /\ handler' = handler
              /\ last'.outcome = "ok"
              /\ ~panicking'
              /\ last'.ret = builder]_vars

\* A non-cancelled builder has just been dropped in normal flow, after an
\* earlier builder was emitted.
C25_Witness ==
    /\ last.op = "drop"
    /\ last.outcome = "trap"
    /\ panicking
    /\ Len(handler.emitted) = 2
    /\ handler.emitted[1] = Diagnostic("Warning", "m")
    /\ handler.emitted[2] = Diagnostic("Bug", "Error constructed but not emitted")

\* C28: the cancellation rule has no effect on the store.  For every context
\* c, c.apply_mark(outer mark of c) returns c's prev_ctxt and leaves the
\* syntax-context table and the markings cache as they were; in particular
\* empty().apply_mark(Mark::root()) returns the empty context.
C28_CancellationLeavesStore ==
    /\ \A c \in Ctxts(data) :
           LET a == apply_mark(data, c, outer(data, c)) IN
           /\ a.outcome = "ok"
           /\ a.ret = prev_ctxt(data, c)
           /\ a.data.syntax_contexts = syntax_contexts
           /\ a.data.markings = markings
    /\ apply_mark(data, empty, root).ret = empty

\* An apply_mark call on a context two marks deep has just returned the
\* receiver's prev_ctxt, which only the cancellation rule returns.
C28_Witness ==
    /\ last.op = "apply_mark"
    /\ last.outcome = "ok"
    /\ prev_ctxt(data, last.ctxt) # empty
    /\ last.ret = prev_ctxt(data, last.ctxt)

\* C29: legacy marks leave the modern projection unchanged.  For every
\* context c and every mark m of the table that is not flagged modern and is
\* not the outer mark of c, c.apply_mark(m).modern() == c.modern().
C29_LegacyMarkKeepsModern ==
    \A c \in Ctxts(data), m \in Marks(data) :
        (~mark_is_modern(data, m) /\ m # outer(data, c)) =>
            LET a == apply_mark(data, c, m) IN
            /\ a.outcome = "ok"
            /\ modern(a.data, a.ret) = modern(data, c)

\* apply_mark has just put a legacy mark on a context whose modern projection
\* is not empty: the result is not its own modern projection.
C29_Witness ==
    /\ last.op = "apply_mark"
    /\ last.outcome = "ok"
    /\ last.ret # last.ctxt
    /\ prev_ctxt(data, last.ret) = last.ctxt
    /\ ~mark_is_modern(data, outer(data, last.ret))
    /\ modern(data, last.ret) # last.ret
    /\ modern(data, last.ctxt) # empty
    /\ modern(data, last.ret) = modern(data, last.ctxt)

\* The outer marks met walking prev_ctxt from c down to the empty context,
\* outermost first.
RECURSIVE chain_marks(_, _)
chain_marks(d, c) ==
    IF c = empty THEN <<>> ELSE <<outer(d, c)>> \o chain_marks(d, prev_ctxt(d, c))

\* The modern-flagged marks of a sequence of marks, in the same order.
modern_marks(d, ms) == SelectSeq(ms, LAMBDA m : mark_is_modern(d, m))

\* C30: the modern projection keeps exactly the modern marks.  With every
\* modern flag set before the mark's first use and no clear_markings call,
\* for every context c of the table the marks on the chain of c.modern() are
\* the modern-flagged marks on the chain of c, in the same order.
C30_ModernKeepsModernMarks ==
    \A c \in Ctxts(data) :
        chain_marks(data, modern(data, c)) = modern_marks(data, chain_marks(data, c))

\* apply_mark has just built a context of three marks, modern, legacy,
\* modern from the inside out, whose modern projection has two marks.
C30_Witness ==
    /\ last.op = "apply_mark"
    /\ last.outcome = "ok"
    /\ Len(chain_marks(data, last.ret)) = 3
    /\ mark_is_modern(data, chain_marks(data, last.ret)[1])
    /\ ~mark_is_modern(data, chain_marks(data, last.ret)[2])
    /\ mark_is_modern(data, chain_marks(data, last.ret)[3])
    /\ Len(chain_marks(data, modern(data, last.ret))) = 2

\* C31: apply_mark adds a syntax-context table entry only the first time a
\* (context, mark) pair is requested, whatever ran in between (stated for the
\* step right after the call: requesting the pair of the call just made again
\* would add no entry to the table).
C31_RequestedPairAddsNoEntry ==
    [][(last.op = "apply_mark" /\ last.outcome = "ok")
        => Len(apply_mark(data_next, last.ctxt, LastApplyMark).data.syntax_contexts)
               = Len(syntax_contexts')]_vars

\* The outer marks of the first k contexts on the prev_ctxt chain of g,
\* applied to self from the innermost (the k-th) to the outermost (the first).
RECURSIVE ApplyStripped(_, _, _, _)
ApplyStripped(d, self, g, k) ==
    IF k = 0 THEN [outcome |-> "ok", data |-> d, ret |-> self]
    ELSE LET a == apply_mark(d, self, outer(d, prev_n(d, g, k - 1)))
         IN IF a.outcome # "ok" THEN a ELSE ApplyStripped(a.data, a.ret, g, k - 1)

\* C32: for a context c, a mark e of the table and a glob context g,
\* c.reverse_glob_adjust(e, g) returns None when e is not a descendant of
\* c's outer mark; otherwise the marks stripped are the outer marks of g's
\* chain up to the first one that has e as a descendant, c receives them by
\* apply_mark from the innermost to the outermost, and the result is
\* Some(Some(innermost stripped mark)), or Some(None) when none was stripped.
C32_ReverseGlobAdjust ==
    \A c \in Ctxts(data), e \in Marks(data), g \in Ctxts(data) :
        LET r == reverse_glob_adjust(data, c, e, g)
            k == StripCount(data, g, e)
            x == ApplyStripped(data, c, g, k)
        IN IF is_descendant_of(data, e, outer(data, c)) = "false"
           THEN r.outcome = "ok" /\ r.ret = None /\ r.data = data
           ELSE /\ r.outcome = "ok"
                /\ x.outcome = "ok"
                /\ r.self = x.ret
                /\ r.data = x.data
                /\ r.ret = Some(IF k = 0 THEN None
                                ELSE Some(outer(data, prev_n(data, g, k - 1))))

\* reverse_glob_adjust has just moved two stripped marks onto the empty
\* context and returned the innermost of them.
C32_Witness ==
    /\ last.op = "reverse_glob_adjust"
    /\ last.outcome = "ok"
    /\ last.ctxt = empty
    /\ prev_ctxt(data, last.self) # empty
    /\ last.ret = Some(Some(outer(data, prev_ctxt(data, last.self))))
    /\ outer(data, last.self) # outer(data, prev_ctxt(data, last.self))

\* C33: in every reachable store state, whatever Mark values are passed to
\* Mark::fresh, the parent of every non-root mark has a strictly smaller
\* index than the mark, and is_descendant_of and Mark::modern, called on
\* marks of the table, return.
C33_ParentIndexSmaller ==
    /\ \A m \in Marks(data) \ {root} : marks[m + 1].parent < m
    /\ last.op \in {"is_descendant_of", "mark_modern"} => last.outcome = "ok"

\* The operations that only read the store.
ReadOnlyOps ==
    {"remove_mark", "adjust", "glob_adjust", "outer", "modern", "is_modern",
     "expn_info", "is_descendant_of"}

\* C34: a step changes the mark table or the syntax-context table only when
\* it is Mark::fresh, set_modern, set_expn_info, or apply_mark (called
\* directly or from reverse_glob_adjust) missing the cache, each new table
\* entry coming with a new cache entry; remove_mark, adjust, glob_adjust,
\* outer, modern, is_modern, expn_info and is_descendant_of leave both
\* tables, the markings cache and the gensym map as they were.
C34_ReadOnlyOperationsFrame ==
    [][/\ marks' # marks => last'.op \in {"fresh", "set_modern", "set_expn_info"}
       /\ syntax_contexts' # syntax_contexts =>
              /\ last'.op \in {"apply_mark", "reverse_glob_adjust"}
              /\ DOMAIN markings \subseteq DOMAIN markings'
              /\ Cardinality(DOMAIN markings' \ DOMAIN markings)
                     = Len(syntax_contexts') - Len(syntax_contexts)
       /\ last'.op \in ReadOnlyOps => data_next = data]_vars

\* adjust has just stripped a mark from the caller's context value in a
\* store that holds an annotated modern mark and a cached context.
C34_Witness ==
    /\ last.op = "adjust"
    /\ last.outcome = "ok"
    /\ last.self # last.ctxt
    /\ last.ret # None
    /\ mark_is_modern(data, 1)
    /\ expn_info(data, 1) # None
    /\ DOMAIN markings # {}

\* C35: a diagnostic reaches the emitter at most once per builder.  emit() on
\* a cancelled builder (cancelled by an earlier emit() or cancel()) calls
\* nothing on the handler; emit() on a non-cancelled builder hands exactly
\* that diagnostic to the emitter, adds one to the error count when the
\* level is Bug, Fatal, PhaseFatal or Error and nothing otherwise, and leaves
\* the builder cancelled; a cancelled builder stays cancelled.
C35_EmittedAtMostOnce ==
    [][/\ last'.op = "emit" =>
              IF cancelled(builder[1])
              THEN handler' = handler /\ builder' = builder
              ELSE /\ handler'.emitted = Append(handler.emitted, builder[1])
                   /\ handler'.err_count =
                          IF builder[1].level \in {"Bug", "Fatal", "PhaseFatal", "Error"}
                          THEN handler.err_count + 1
                          ELSE handler.err_count
                   /\ builder' = Some(cancel(builder[1]))
       /\ (builder # None /\ builder' # None /\ cancelled(builder[1])) =>
              cancelled(builder'[1]) /\ handler' = handler]_vars

\* Two builders have been emitted, a Warning and then an Error: the error
\* count is one, and the builder just emitted is cancelled.
C35_Witness ==
    /\ last.op = "emit"
    /\ builder # None
    /\ cancelled(builder[1])
    /\ handler.emitted = <<Diagnostic("Warning", "m"), Diagnostic("Error", "m")>>
    /\ handler.err_count = 1

\* C36: for every span with at least one expansion level, macro_backtrace
\* returns; when the first level's call_site has byte range (0,0) the first
\* level has no record, and the backtrace is empty when that call_site is
\* DUMMY_SP; in every other case the record of the first level comes first.
C36_DummyCallSiteDropsFirstLevel ==
    \A sp \in ProvSpans(data) :
        LET lv == ExpansionLevels(data, sp)
            bt == macro_backtrace(data, sp)
        IN lv # <<>> =>
               /\ bt.outcome = "ok"
               /\ IF source_equal(lv[1].call_site, DUMMY_SP)
                  THEN /\ bt.ret # <<>> => bt.ret[1] # LevelRecord(lv[1])
                       /\ lv[1].call_site = DUMMY_SP => bt.ret = <<>>
                  ELSE bt.ret # <<>> /\ bt.ret[1] = LevelRecord(lv[1])

\* C37: the modern projection is idempotent.  In every reachable store
\* state, and in the store any apply_mark call leaves, every context c has
\* c.modern().modern() == c.modern().
C37_ModernIdempotent ==
    /\ \A c \in Ctxts(data) : modern(data, modern(data, c)) = modern(data, c)
    /\ \A c \in Ctxts(data), m \in Marks(data) :
           LET a == apply_mark(data, c, m) IN
           \A x \in Ctxts(a.data) : modern(a.data, modern(a.data, x)) = modern(a.data, x)

\* C38: cache consistency.  In every reachable store state every markings
\* entry (c, m) -> r names an entry r of the syntax-context table whose outer
\* mark is m and whose prev_ctxt is c, and no two keys map to the same
\* context.
C38_CacheConsistent ==
    /\ \A key \in DOMAIN markings :
           /\ markings[key] \in Ctxts(data)
           /\ outer(data, markings[key]) = key[2]
           /\ prev_ctxt(data, markings[key]) = key[1]
    /\ \A k1 \in DOMAIN markings, k2 \in DOMAIN markings :
           markings[k1] = markings[k2] => k1 = k2

\* apply_mark has just added an entry built on a non-empty context, next to
\* an older cache entry, with a modern mark in the table.
C38_Witness ==
    /\ last.op = "apply_mark"
    /\ last.outcome = "ok"
    /\ last.ctxt # empty
    /\ Cardinality(DOMAIN markings) = 2
    /\ <<last.ctxt, outer(data, last.ret)>> \in DOMAIN markings
    /\ markings[<<last.ctxt, outer(data, last.ret)>>] = last.ret
    /\ \E m \in Marks(data) : mark_is_modern(data, m)

\* C39: context chains are well founded.  In every reachable store state
\* every non-empty context has a prev_ctxt of strictly smaller index and a
\* modern projection of index not greater than its own, walking prev_ctxt
\* reaches the empty context, and adjust, glob_adjust and
\* reverse_glob_adjust, called with marks of the table, terminate.
C39_ContextChainsWellFounded ==
    /\ \A c \in Ctxts(data) \ {empty} :
           prev_ctxt(data, c) < c /\ modern(data, c) <= c
    /\ \A c \in Ctxts(data) : prev_n(data, c, Len(syntax_contexts)) = empty
    /\ \A c \in Ctxts(data), e \in Marks(data), g \in Ctxts(data) :
           /\ adjust(data, c, e).outcome # "diverge"
           /\ glob_adjust(data, c, e, g).outcome # "diverge"
           /\ reverse_glob_adjust(data, c, e, g).outcome # "diverge"

====
